---- MODULE Spec2Model ----
(***************************************************************************)
(* Domain services of the exam-management backend: users, locations,       *)
(* exams, registrations, payments, results and analytics.                  *)
(*                                                                         *)
(* The stores are the tables behind the repositories.  A service method    *)
(* is one action when calls run one at a time (Spec); for the concurrent   *)
(* create_registration it is split at its repository calls (SpecRace).     *)
(*                                                                         *)
(* Records carry the attributes the services read: exam.date, exam.status, *)
(* exam.capacity, exam.current_registrations, exam.price and               *)
(* payment.amount.  core/schemas/exams.py and core/schemas/payments.py     *)
(* declare fewer fields (no status, capacity, current_registrations,       *)
(* price, amount) and the schema base class is not part of the sources;    *)
(* the record shape is therefore the one of the data model the services    *)
(* are written against.  A row read back from a table is the row: the      *)
(* validation of response schemas is not part of the model.                *)
(*                                                                         *)
(* An outcome is "ok", "NotFound" (HTTP 404), "InvalidArgument" (HTTP 400) *)
(* or "Internal": an exception that is not an HTTPException.               *)
(***************************************************************************)
EXTENDS Integers, FiniteSets, Sequences, TLC

\* ---------------------------------------------------------------- bounds
MaxRegistrations == 2
MaxPayments == 2
MaxTime == 1
MaxUsers == 2
MaxLocations == 1
MaxExams == 1
MaxResults == 2
MaxAnalytics == 2

\* ids a caller can name; the last one of each never exists
Students == {1, 2}
UserIds == Students \cup {3}
ExamIds == {1, 2}
RegistrationIds == 1..(MaxRegistrations + 1)
PaymentIds == 1..(MaxPayments + 1)
LocationIds == 1..(MaxLocations + 1)
ResultIds == 1..(MaxResults + 1)
AnalyticIds == 1..(MaxAnalytics + 1)

ExamDates == 1..MaxTime
ExamStatuses == {"active", "inactive"}
ExamCapacities == {0, 1}
Prices == {1, 2}
Amounts == {1, 2}

\* the username and the email of the user of each id
UserNames == <<"ann", "bob", "cyd">>
Emails == <<"ann@x", "bob@x", "cyd@x">>

\* what a client can send
UserNameInputs == {"ann", "bob"}
EmailInputs == {"ann@x", "bob@x"}
LocationCapacityInputs == {0, 1, 2}
ExamCapacityInputs == {1, 2}
PriceInputs == {0, 1}
CountInputs == {0, 1}

\* the highest score the grade endpoint accepts
MaxScore == 100

\* an optional score: the set holding it, empty for None
ScoreInputs == {{}, {0 - 1}, {0}, {100}, {101}}

\* free-form strings a client can send
RegistrationStatuses == {"pending", "confirmed"}
RegistrationPaymentStatuses == {"unpaid", "paid"}
PaymentStatusInputs == {"pending", "completed", "failed", "refunded", "bogus"}

VARIABLES
    now,                  \* datetime.now()
    users,                \* user id -> row of table users
    locations,            \* location id -> row of table locations
    exams,                \* exam id -> row of table exams
    registrations,        \* rows of table registrations
    payments,             \* rows of table payments
    results,              \* rows of table results
    analytics,            \* rows of table analytics
    nextRegistrationId,   \* serial primary key of registrations
    nextPaymentId,        \* serial primary key of payments
    nextUserId,           \* serial primary key of users
    nextLocationId,       \* serial primary key of locations
    nextExamId,           \* serial primary key of exams
    nextResultId,         \* serial primary key of results
    nextAnalyticId,       \* serial primary key of analytics
    last,                 \* the call that ended last and its outcome
    pc,                   \* SpecRace: position of each request
    req,                  \* SpecRace: the request's RegistrationCreate
    res                   \* SpecRace: the request's outcome

vars == <<now, users, locations, exams, registrations, payments, results,
          analytics, nextRegistrationId, nextPaymentId, nextUserId,
          nextLocationId, nextExamId, nextResultId, nextAnalyticId,
          last, pc, req, res>>

stores == <<users, locations, exams, registrations, payments, results,
            analytics>>

\* what the registration and payment services never write
catalogue == <<locations, results, analytics, nextUserId, nextLocationId,
               nextExamId, nextResultId, nextAnalyticId>>

Procs == {1, 2}

\* ------------------------------------------------------------ python values
\* truth value of an optional string: None (field not supplied) and "" are falsy
Truthy(v) == v \notin {"unset", ""}

ValidPaymentStatuses == {"pending", "completed", "failed", "refunded"}

\* --------------------------------------------------------- repositories
\* UserRepository.get_user_by_id: the set holding the row, empty for None
get_user_by_id(us, user_id) == {u \in DOMAIN us : u = user_id}

\* ExamRepository.get_exam_by_id
get_exam_by_id(exs, exam_id) == {e \in DOMAIN exs : e = exam_id}

\* RegistrationRepository.get_registration_by_id
get_registration_by_id(regs, registration_id) ==
    {r \in regs : r.id = registration_id}

\* RegistrationRepository.get_user_exam_registration: the matching rows;
\* scalar_one_or_none raises MultipleResultsFound on more than one
get_user_exam_registration(regs, user_id, exam_id) ==
    {r \in regs : r.user_id = user_id /\ r.exam_id = exam_id}

MultipleResultsFound(rows) == Cardinality(rows) > 1

\* an insert under a unique index on (user_id, exam_id): a second row for
\* the pair is not stored
RegistrationRepository_create_registration_unique(regs, next_id, registration_data) ==
    IF \E r \in regs : /\ r.user_id = registration_data.user_id
                        /\ r.exam_id = registration_data.exam_id
    THEN regs
    ELSE regs \cup {[id |-> next_id,
                     user_id |-> registration_data.user_id,
                     exam_id |-> registration_data.exam_id,
                     status |-> registration_data.status,
                     payment_status |-> registration_data.payment_status]}

\* RegistrationRepository.create_registration: add and commit
RegistrationRepository_create_registration(regs, next_id, registration_data) ==
    regs \cup {[id |-> next_id,
                user_id |-> registration_data.user_id,
                exam_id |-> registration_data.exam_id,
                status |-> registration_data.status,
                payment_status |-> registration_data.payment_status]}

\* one row after setattr of every supplied field
SetRegistrationFields(r, fields) ==
    [r EXCEPT !.status = IF "status" \in DOMAIN fields
                         THEN fields["status"] ELSE @,
              !.payment_status = IF "payment_status" \in DOMAIN fields
                                 THEN fields["payment_status"] ELSE @]

\* RegistrationRepository.update_registration.  registration_data is
\* [kind, fields]: kind "schema" for a RegistrationUpdate, "dict" for a
\* plain dict, which has no model_dump: the call raises AttributeError once
\* the row is found, before anything is written.
RegistrationRepository_update_registration(regs, registration_id, registration_data) ==
    LET found == {r \in regs : r.id = registration_id}
    IN  IF found = {}
        THEN [raised |-> FALSE, found |-> FALSE, registrations |-> regs]
        ELSE IF registration_data.kind = "dict"
        THEN [raised |-> TRUE, found |-> TRUE, registrations |-> regs]
        ELSE [raised |-> FALSE, found |-> TRUE,
              registrations |->
                  {IF r.id = registration_id
                   THEN SetRegistrationFields(r, registration_data.fields)
                   ELSE r : r \in regs}]

\* RegistrationRepository.delete_registration
RegistrationRepository_delete_registration(regs, registration_id) ==
    {r \in regs : r.id # registration_id}

\* model_dump(exclude_unset=True) of a RegistrationUpdate
RegistrationUpdateFields(status, payment_status) ==
    LET names == (IF status = "unset" THEN {} ELSE {"status"})
                 \cup (IF payment_status = "unset" THEN {} ELSE {"payment_status"})
    IN  [f \in names |-> IF f = "status" THEN status ELSE payment_status]

\* PaymentRepository.get_payment_by_id
get_payment_by_id(pays, payment_id) == {p \in pays : p.id = payment_id}

\* PaymentRepository.get_user_exam_payment
get_user_exam_payment(pays, user_id, exam_id) ==
    {p \in pays : p.user_id = user_id /\ p.exam_id = exam_id}

\* PaymentRepository.create_payment: add and commit
PaymentRepository_create_payment(pays, next_id, payment_data) ==
    pays \cup {[id |-> next_id,
                user_id |-> payment_data.user_id,
                exam_id |-> payment_data.exam_id,
                amount |-> payment_data.amount,
                status |-> payment_data.status]}

\* PaymentRepository.update_payment: setattr of the supplied fields of a
\* PaymentUpdate, which has a status and a payment_date and no amount
PaymentRepository_update_payment(pays, payment_id, payment_data) ==
    {IF p.id = payment_id /\ payment_data.status # "unset"
     THEN [p EXCEPT !.status = payment_data.status]
     ELSE p : p \in pays}

\* PaymentRepository.delete_payment
PaymentRepository_delete_payment(pays, payment_id) ==
    {p \in pays : p.id # payment_id}

\* ------------------------------------------------- registration service
Result(outcome, detail, regs, pays) ==
    [outcome |-> outcome, detail |-> detail,
     registrations |-> regs, payments |-> pays]

\* create_registration without the look-up of an existing registration
create_registration_result_unchecked(us, exs, regs, pays, t, next_id, registration_data) ==
    IF get_user_by_id(us, registration_data.user_id) = {}
    THEN Result("NotFound", "user", regs, pays)
    ELSE IF get_exam_by_id(exs, registration_data.exam_id) = {}
    THEN Result("NotFound", "exam", regs, pays)
    ELSE LET exam == exs[registration_data.exam_id]
         IN  IF exam.date <= t
             THEN Result("InvalidArgument", "past exam", regs, pays)
             ELSE IF exam.status # "active"
             THEN Result("InvalidArgument", "inactive exam", regs, pays)
             ELSE IF exam.current_registrations >= exam.capacity
             THEN Result("InvalidArgument", "fully booked", regs, pays)
             ELSE Result("ok", "created",
                         RegistrationRepository_create_registration(
                             regs, next_id, registration_data),
                         pays)

\* create_registration with the capacity check ahead of the status check
create_registration_result_reordered(us, exs, regs, pays, t, next_id, registration_data) ==
    IF get_user_by_id(us, registration_data.user_id) = {}
    THEN Result("NotFound", "user", regs, pays)
    ELSE IF get_exam_by_id(exs, registration_data.exam_id) = {}
    THEN Result("NotFound", "exam", regs, pays)
    ELSE LET exam == exs[registration_data.exam_id]
             existing_registration ==
                 get_user_exam_registration(regs, registration_data.user_id,
                                            registration_data.exam_id)
         IN  IF exam.date <= t
             THEN Result("InvalidArgument", "past exam", regs, pays)
             ELSE IF exam.current_registrations >= exam.capacity
             THEN Result("InvalidArgument", "fully booked", regs, pays)
             ELSE IF exam.status # "active"
             THEN Result("InvalidArgument", "inactive exam", regs, pays)
             ELSE IF existing_registration # {}
             THEN Result("InvalidArgument", "already registered", regs, pays)
             ELSE Result("ok", "created",
                         RegistrationRepository_create_registration(
                             regs, next_id, registration_data),
                         pays)

\* RegistrationService.create_registration, run to completion
create_registration_result(us, exs, regs, pays, t, next_id, registration_data) ==
    IF get_user_by_id(us, registration_data.user_id) = {}
    THEN Result("NotFound", "user", regs, pays)
    ELSE IF get_exam_by_id(exs, registration_data.exam_id) = {}
    THEN Result("NotFound", "exam", regs, pays)
    ELSE LET exam == exs[registration_data.exam_id]
             existing_registration ==
                 get_user_exam_registration(regs, registration_data.user_id,
                                            registration_data.exam_id)
         IN  IF exam.date <= t
             THEN Result("InvalidArgument", "past exam", regs, pays)
             ELSE IF exam.status # "active"
             THEN Result("InvalidArgument", "inactive exam", regs, pays)
             ELSE IF exam.current_registrations >= exam.capacity
             THEN Result("InvalidArgument", "fully booked", regs, pays)
             ELSE IF MultipleResultsFound(existing_registration)
             THEN Result("Internal", "MultipleResultsFound", regs, pays)
             ELSE IF existing_registration # {}
             THEN Result("InvalidArgument", "already registered", regs, pays)
             ELSE Result("ok", "created",
                         RegistrationRepository_create_registration(
                             regs, next_id, registration_data),
                         pays)

\* RegistrationService.update_registration
update_registration_result(exs, regs, pays, t, registration_id, registration_data) ==
    LET current == get_registration_by_id(regs, registration_id)
    IN  IF current = {}
        THEN Result("NotFound", "registration", regs, pays)
        ELSE LET current_registration == CHOOSE r \in current : TRUE
                 exam_id == current_registration.exam_id
                 updated == RegistrationRepository_update_registration(
                                regs, registration_id,
                                [kind |-> "schema",
                                 fields |-> RegistrationUpdateFields(
                                                registration_data.status,
                                                registration_data.payment_status)])
             IN  IF Truthy(registration_data.status)
                    /\ get_exam_by_id(exs, exam_id) = {}
                 THEN Result("Internal", "AttributeError", regs, pays)
                 ELSE IF Truthy(registration_data.status) /\ exs[exam_id].date <= t
                 THEN Result("InvalidArgument", "past exam", regs, pays)
                 ELSE Result("ok", "updated", updated.registrations, pays)

\* RegistrationService.delete_registration
delete_registration_result(exs, regs, pays, t, registration_id) ==
    LET current == get_registration_by_id(regs, registration_id)
    IN  IF current = {}
        THEN Result("NotFound", "registration", regs, pays)
        ELSE LET registration == CHOOSE r \in current : TRUE
             IN  IF get_exam_by_id(exs, registration.exam_id) = {}
                 THEN Result("Internal", "AttributeError", regs, pays)
                 ELSE IF exs[registration.exam_id].date <= t
                 THEN Result("InvalidArgument", "past exam", regs, pays)
                 ELSE Result("ok", "deleted",
                             RegistrationRepository_delete_registration(
                                 regs, registration_id),
                             pays)

\* what check_registration_availability hands back; a call that raises
\* hands back nothing, written as available FALSE with reason "none"
Availability(outcome, available, reason) ==
    [outcome |-> outcome, available |-> available, reason |-> reason]

\* check_registration_availability that looks at the date before the
\* existing registration
check_registration_availability_result_reordered(exs, regs, t, user_id, exam_id) ==
    LET existing_registration ==
            get_user_exam_registration(regs, user_id, exam_id)
    IN  IF MultipleResultsFound(existing_registration)
        THEN Availability("Internal", FALSE, "none")
        ELSE IF get_exam_by_id(exs, exam_id) = {}
        THEN Availability("Internal", FALSE, "none")
        ELSE IF exs[exam_id].date <= t
        THEN Availability("ok", FALSE, "Exam date has passed")
        ELSE IF existing_registration # {}
        THEN Availability("ok", FALSE, "Already registered")
        ELSE IF exs[exam_id].status # "active"
        THEN Availability("ok", FALSE, "Exam is not active")
        ELSE IF exs[exam_id].current_registrations >= exs[exam_id].capacity
        THEN Availability("ok", FALSE, "Exam is fully booked")
        ELSE Availability("ok", TRUE, "Registration available")

\* check_registration_availability without the look at the free places
check_registration_availability_result_any_capacity(exs, regs, t, user_id, exam_id) ==
    LET existing_registration ==
            get_user_exam_registration(regs, user_id, exam_id)
    IN  IF MultipleResultsFound(existing_registration)
        THEN Availability("Internal", FALSE, "none")
        ELSE IF existing_registration # {}
        THEN Availability("ok", FALSE, "Already registered")
        ELSE IF get_exam_by_id(exs, exam_id) = {}
        THEN Availability("Internal", FALSE, "none")
        ELSE IF exs[exam_id].date <= t
        THEN Availability("ok", FALSE, "Exam date has passed")
        ELSE IF exs[exam_id].status # "active"
        THEN Availability("ok", FALSE, "Exam is not active")
        ELSE Availability("ok", TRUE, "Registration available")

\* RegistrationService.check_registration_availability: the exam is fetched
\* and may be None, the existing registration is fetched with
\* scalar_one_or_none, the user is never fetched; exam.date of None raises
\* AttributeError
check_registration_availability_result(exs, regs, t, user_id, exam_id) ==
    LET existing_registration ==
            get_user_exam_registration(regs, user_id, exam_id)
    IN  IF MultipleResultsFound(existing_registration)
        THEN Availability("Internal", FALSE, "none")
        ELSE IF existing_registration # {}
        THEN Availability("ok", FALSE, "Already registered")
        ELSE IF get_exam_by_id(exs, exam_id) = {}
        THEN Availability("Internal", FALSE, "none")
        ELSE IF exs[exam_id].date <= t
        THEN Availability("ok", FALSE, "Exam date has passed")
        ELSE IF exs[exam_id].status # "active"
        THEN Availability("ok", FALSE, "Exam is not active")
        ELSE IF exs[exam_id].current_registrations >= exs[exam_id].capacity
        THEN Availability("ok", FALSE, "Exam is fully booked")
        ELSE Availability("ok", TRUE, "Registration available")

\* ------------------------------------------------------ payment service
\* create_payment without the comparison of the amount with the price
create_payment_result_any_amount(us, exs, regs, pays, next_id, payment_data) ==
    IF get_user_by_id(us, payment_data.user_id) = {}
    THEN Result("NotFound", "user", regs, pays)
    ELSE IF get_exam_by_id(exs, payment_data.exam_id) = {}
    THEN Result("NotFound", "exam", regs, pays)
    ELSE IF get_user_exam_registration(regs, payment_data.user_id,
                                       payment_data.exam_id) = {}
    THEN Result("InvalidArgument", "not registered", regs, pays)
    ELSE IF get_user_exam_payment(pays, payment_data.user_id,
                                  payment_data.exam_id) # {}
    THEN Result("InvalidArgument", "payment exists", regs, pays)
    ELSE IF payment_data.status \notin ValidPaymentStatuses
    THEN Result("InvalidArgument", "invalid status", regs, pays)
    ELSE Result("ok", "created", regs,
                PaymentRepository_create_payment(pays, next_id, payment_data))

\* create_payment without the look-up of an existing payment
create_payment_result_unchecked(us, exs, regs, pays, next_id, payment_data) ==
    IF get_user_by_id(us, payment_data.user_id) = {}
    THEN Result("NotFound", "user", regs, pays)
    ELSE IF get_exam_by_id(exs, payment_data.exam_id) = {}
    THEN Result("NotFound", "exam", regs, pays)
    ELSE IF get_user_exam_registration(regs, payment_data.user_id,
                                       payment_data.exam_id) = {}
    THEN Result("InvalidArgument", "not registered", regs, pays)
    ELSE IF payment_data.amount # exs[payment_data.exam_id].price
    THEN Result("InvalidArgument", "amount", regs, pays)
    ELSE IF payment_data.status \notin ValidPaymentStatuses
    THEN Result("InvalidArgument", "invalid status", regs, pays)
    ELSE Result("ok", "created", regs,
                PaymentRepository_create_payment(pays, next_id, payment_data))

\* PaymentService.create_payment
create_payment_result(us, exs, regs, pays, next_id, payment_data) ==
    IF get_user_by_id(us, payment_data.user_id) = {}
    THEN Result("NotFound", "user", regs, pays)
    ELSE IF get_exam_by_id(exs, payment_data.exam_id) = {}
    THEN Result("NotFound", "exam", regs, pays)
    ELSE LET exam == exs[payment_data.exam_id]
             registration ==
                 get_user_exam_registration(regs, payment_data.user_id,
                                            payment_data.exam_id)
             existing_payment ==
                 get_user_exam_payment(pays, payment_data.user_id,
                                       payment_data.exam_id)
         IN  IF MultipleResultsFound(registration)
             THEN Result("Internal", "MultipleResultsFound", regs, pays)
             ELSE IF registration = {}
             THEN Result("InvalidArgument", "not registered", regs, pays)
             ELSE IF MultipleResultsFound(existing_payment)
             THEN Result("Internal", "MultipleResultsFound", regs, pays)
             ELSE IF existing_payment # {}
             THEN Result("InvalidArgument", "payment exists", regs, pays)
             ELSE IF payment_data.amount # exam.price
             THEN Result("InvalidArgument", "amount", regs, pays)
             ELSE IF payment_data.status \notin ValidPaymentStatuses
             THEN Result("InvalidArgument", "invalid status", regs, pays)
             ELSE Result("ok", "created", regs,
                         PaymentRepository_create_payment(pays, next_id,
                                                          payment_data))

\* PaymentService.update_payment.  On status "completed" the registration
\* of the payment's pair is written first, with a plain dict.
update_payment_result(regs, pays, payment_id, payment_data) ==
    LET current == get_payment_by_id(pays, payment_id)
    IN  IF current = {}
        THEN Result("NotFound", "payment", regs, pays)
        ELSE IF Truthy(payment_data.status)
                /\ payment_data.status \notin ValidPaymentStatuses
        THEN Result("InvalidArgument", "invalid status", regs, pays)
        ELSE LET current_payment == CHOOSE p \in current : TRUE
                 registration ==
                     IF payment_data.status = "completed"
                     THEN get_user_exam_registration(
                              regs, current_payment.user_id,
                              current_payment.exam_id)
                     ELSE {}
                 synced ==
                     IF registration = {}
                     THEN [raised |-> FALSE, found |-> FALSE,
                           registrations |-> regs]
                     ELSE RegistrationRepository_update_registration(
                              regs, (CHOOSE r \in registration : TRUE).id,
                              [kind |-> "dict",
                               fields |-> [f \in {"payment_status"} |-> "paid"]])
             IN  IF MultipleResultsFound(registration)
                 THEN Result("Internal", "MultipleResultsFound", regs, pays)
                 ELSE IF synced.raised
                 THEN Result("Internal", "AttributeError", regs, pays)
                 ELSE Result("ok", "updated", synced.registrations,
                             PaymentRepository_update_payment(
                                 pays, payment_id, payment_data))

\* delete_payment without the check of the status
delete_payment_result_unchecked(regs, pays, payment_id) ==
    IF get_payment_by_id(pays, payment_id) = {}
    THEN Result("NotFound", "payment", regs, pays)
    ELSE Result("ok", "deleted", regs,
                PaymentRepository_delete_payment(pays, payment_id))

\* PaymentService.delete_payment
delete_payment_result(regs, pays, payment_id) ==
    LET current == get_payment_by_id(pays, payment_id)
    IN  IF current = {}
        THEN Result("NotFound", "payment", regs, pays)
        ELSE IF (CHOOSE p \in current : TRUE).status = "completed"
        THEN Result("InvalidArgument", "completed", regs, pays)
        ELSE Result("ok", "deleted", regs,
                    PaymentRepository_delete_payment(pays, payment_id))

\* PaymentService.process_refund: update_payment to "refunded" commits, then
\* the registration of the pair is written, again with a plain dict.
process_refund_result(regs, pays, payment_id) ==
    LET current == get_payment_by_id(pays, payment_id)
    IN  IF current = {}
        THEN Result("NotFound", "payment", regs, pays)
        ELSE IF (CHOOSE p \in current : TRUE).status # "completed"
        THEN Result("InvalidArgument", "not completed", regs, pays)
        ELSE LET payment == CHOOSE p \in current : TRUE
                 updated == update_payment_result(
                                regs, pays, payment_id, [status |-> "refunded"])
                 registration ==
                     get_user_exam_registration(
                         updated.registrations, payment.user_id, payment.exam_id)
                 synced ==
                     IF registration = {}
                     THEN [raised |-> FALSE, found |-> FALSE,
                           registrations |-> updated.registrations]
                     ELSE RegistrationRepository_update_registration(
                              updated.registrations,
                              (CHOOSE r \in registration : TRUE).id,
                              [kind |-> "dict",
                               fields |-> [f \in {"payment_status"} |-> "refunded"]])
             IN  IF updated.outcome # "ok"
                 THEN updated
                 ELSE IF MultipleResultsFound(registration)
                 THEN Result("Internal", "MultipleResultsFound",
                             updated.registrations, updated.payments)
                 ELSE IF synced.raised
                 THEN Result("Internal", "AttributeError",
                             updated.registrations, updated.payments)
                 ELSE Result("ok", "refunded", synced.registrations,
                             updated.payments)

\* ------------------------------------------------------- result service
\* what a service call gives back: its outcome and the table it writes
Outcome(outcome, detail, rows) ==
    [outcome |-> outcome, detail |-> detail, rows |-> rows]

\* an optional number is the set holding it, empty for None
IsNone(v) == v = {}
ValueOf(v) == CHOOSE x \in v : TRUE

\* result_data.score is not None and (score < 0 or score > 100)
ScoreOutOfRange(score) ==
    ~IsNone(score) /\ (ValueOf(score) < 0 \/ ValueOf(score) > 100)

Grades == {"A", "B", "C", "D", "F"}

\* ResultRepository.get_result_by_id
get_result_by_id(ress, result_id) == {r \in ress : r.id = result_id}

\* ResultRepository.get_user_exam_result
get_user_exam_result(ress, user_id, exam_id) ==
    {r \in ress : r.user_id = user_id /\ r.exam_id = exam_id}

\* the results of every exam
get_exam_results_unfiltered(ress, exam_id) == ress

\* ResultRepository.get_exam_results
get_exam_results(ress, exam_id) == {r \in ress : r.exam_id = exam_id}

\* ResultRepository.create_result: add and commit
ResultRepository_create_result(ress, next_id, result_data) ==
    ress \cup {[id |-> next_id,
                user_id |-> result_data.user_id,
                exam_id |-> result_data.exam_id,
                score |-> result_data.score,
                grade |-> result_data.grade]}

\* ResultRepository.update_result: setattr of the supplied fields; a score
\* supplied as None is written as None
ResultRepository_update_result(ress, result_id, result_data) ==
    {IF r.id = result_id
     THEN [r EXCEPT !.score = IF result_data.score_set
                              THEN result_data.score ELSE @,
                    !.grade = IF result_data.grade # "unset"
                              THEN result_data.grade ELSE @]
     ELSE r : r \in ress}

\* ResultRepository.delete_result
ResultRepository_delete_result(ress, result_id) ==
    {r \in ress : r.id # result_id}

\* create_result without the check of the registration's status
create_result_result_unchecked(us, exs, regs, ress, next_id, result_data) ==
    IF get_user_by_id(us, result_data.user_id) = {}
    THEN Outcome("NotFound", "user", ress)
    ELSE IF get_exam_by_id(exs, result_data.exam_id) = {}
    THEN Outcome("NotFound", "exam", ress)
    ELSE IF get_user_exam_registration(regs, result_data.user_id,
                                       result_data.exam_id) = {}
    THEN Outcome("InvalidArgument", "not registered", ress)
    ELSE IF get_user_exam_result(ress, result_data.user_id,
                                 result_data.exam_id) # {}
    THEN Outcome("InvalidArgument", "result exists", ress)
    ELSE IF ScoreOutOfRange(result_data.score)
    THEN Outcome("InvalidArgument", "score", ress)
    ELSE Outcome("ok", "created",
                 ResultRepository_create_result(ress, next_id, result_data))

\* ResultService.create_result
create_result_result(us, exs, regs, ress, next_id, result_data) ==
    IF get_user_by_id(us, result_data.user_id) = {}
    THEN Outcome("NotFound", "user", ress)
    ELSE IF get_exam_by_id(exs, result_data.exam_id) = {}
    THEN Outcome("NotFound", "exam", ress)
    ELSE LET registration ==
                 get_user_exam_registration(regs, result_data.user_id,
                                            result_data.exam_id)
             existing_result ==
                 get_user_exam_result(ress, result_data.user_id,
                                      result_data.exam_id)
         IN  IF MultipleResultsFound(registration)
             THEN Outcome("Internal", "MultipleResultsFound", ress)
             ELSE IF registration = {}
             THEN Outcome("InvalidArgument", "not registered", ress)
             ELSE IF (CHOOSE r \in registration : TRUE).status # "confirmed"
             THEN Outcome("InvalidArgument", "not confirmed", ress)
             ELSE IF MultipleResultsFound(existing_result)
             THEN Outcome("Internal", "MultipleResultsFound", ress)
             ELSE IF existing_result # {}
             THEN Outcome("InvalidArgument", "result exists", ress)
             ELSE IF ScoreOutOfRange(result_data.score)
             THEN Outcome("InvalidArgument", "score", ress)
             ELSE Outcome("ok", "created",
                          ResultRepository_create_result(ress, next_id,
                                                         result_data))

\* update_result that writes the row before it checks the score and grade
update_result_result_late(ress, result_id, result_data) ==
    IF get_result_by_id(ress, result_id) = {}
    THEN Outcome("NotFound", "result", ress)
    ELSE IF ScoreOutOfRange(result_data.score)
    THEN Outcome("InvalidArgument", "score",
                 ResultRepository_update_result(ress, result_id, result_data))
    ELSE IF result_data.grade # "unset" /\ result_data.grade \notin Grades
    THEN Outcome("InvalidArgument", "grade",
                 ResultRepository_update_result(ress, result_id, result_data))
    ELSE Outcome("ok", "updated",
                 ResultRepository_update_result(ress, result_id, result_data))

\* ResultService.update_result
update_result_result(ress, result_id, result_data) ==
    IF get_result_by_id(ress, result_id) = {}
    THEN Outcome("NotFound", "result", ress)
    ELSE IF ScoreOutOfRange(result_data.score)
    THEN Outcome("InvalidArgument", "score", ress)
    ELSE IF result_data.grade # "unset" /\ result_data.grade \notin Grades
    THEN Outcome("InvalidArgument", "grade", ress)
    ELSE Outcome("ok", "updated",
                 ResultRepository_update_result(ress, result_id, result_data))

\* ResultService.delete_result
delete_result_result(ress, result_id) ==
    IF get_result_by_id(ress, result_id) = {}
    THEN Outcome("NotFound", "result", ress)
    ELSE Outcome("ok", "deleted",
                 ResultRepository_delete_result(ress, result_id))

\* calculate_grade with each band starting one point later
calculate_grade_result_strict(score) ==
    IF score > 90 THEN "A"
    ELSE IF score > 80 THEN "B"
    ELSE IF score > 70 THEN "C"
    ELSE IF score > 60 THEN "D"
    ELSE "F"

\* ResultService.calculate_grade
calculate_grade_result(score) ==
    IF score >= 90 THEN "A"
    ELSE IF score >= 80 THEN "B"
    ELSE IF score >= 70 THEN "C"
    ELSE IF score >= 60 THEN "D"
    ELSE "F"

\* ----------------------------------------------------- analytic service
\* RegistrationRepository.get_exam_registrations
get_exam_registrations(regs, exam_id) == {r \in regs : r.exam_id = exam_id}

\* AnalyticRepository.get_analytic_by_id
get_analytic_by_id(anas, analytic_id) == {a \in anas : a.id = analytic_id}

\* AnalyticRepository.get_exam_analytics: scalar_one_or_none, one row or None
get_exam_analytics(anas, exam_id) == {a \in anas : a.exam_id = exam_id}

\* AnalyticRepository.create_analytic: add and commit
AnalyticRepository_create_analytic(anas, next_id, analytic_data) ==
    anas \cup {[id |-> next_id,
                exam_id |-> analytic_data.exam_id,
                total_registrations |-> analytic_data.total_registrations,
                total_paid |-> analytic_data.total_paid,
                total_unpaid |-> analytic_data.total_unpaid,
                average_score |-> analytic_data.average_score]}

\* AnalyticRepository.update_analytic: setattr of the supplied fields; a
\* count that is not supplied is the empty set
AnalyticRepository_update_analytic(anas, analytic_id, analytic_data) ==
    {IF a.id = analytic_id
     THEN [a EXCEPT
             !.total_registrations =
                 IF IsNone(analytic_data.total_registrations) THEN @
                 ELSE ValueOf(analytic_data.total_registrations),
             !.total_paid =
                 IF IsNone(analytic_data.total_paid) THEN @
                 ELSE ValueOf(analytic_data.total_paid),
             !.total_unpaid =
                 IF IsNone(analytic_data.total_unpaid) THEN @
                 ELSE ValueOf(analytic_data.total_unpaid),
             !.average_score =
                 IF analytic_data.average_score_set
                 THEN analytic_data.average_score ELSE @]
     ELSE a : a \in anas}

\* AnalyticRepository.delete_analytic
AnalyticRepository_delete_analytic(anas, analytic_id) ==
    {a \in anas : a.id # analytic_id}

\* sum(scores) over the rows of a result list
RECURSIVE SumScores(_)
SumScores(rows) ==
    IF rows = {} THEN 0
    ELSE LET r == CHOOSE x \in rows : TRUE
         IN  ValueOf(r.score) + SumScores(rows \ {r})

RECURSIVE Gcd(_, _)
Gcd(a, b) == IF b = 0 THEN a ELSE Gcd(b, a % b)

\* the float a / b, b > 0, kept exact as the fraction in lowest terms
Quotient(a, b) ==
    LET g == Gcd(a, b)
    IN  IF g = 0 THEN <<0, 1>> ELSE <<a \div g, b \div g>>

\* the mean over every result of the exam, a null score counted as 0
average_score_of_all(exam_results) ==
    IF exam_results = {} THEN {}
    ELSE {Quotient(SumScores({r \in exam_results : ~IsNone(r.score)}),
                   Cardinality(exam_results))}

\* analytic_service.py:103-107: the mean of the scores that are not None
average_score_of(exam_results) ==
    LET scored == {r \in exam_results : ~IsNone(r.score)}
    IN  IF scored = {} THEN {}
        ELSE {Quotient(SumScores(scored), Cardinality(scored))}

\* AnalyticService.create_analytic
create_analytic_result(exs, anas, next_id, analytic_data) ==
    IF get_exam_by_id(exs, analytic_data.exam_id) = {}
    THEN Outcome("NotFound", "exam", anas)
    ELSE LET existing_analytic ==
                 get_exam_analytics(anas, analytic_data.exam_id)
         IN  IF MultipleResultsFound(existing_analytic)
             THEN Outcome("Internal", "MultipleResultsFound", anas)
             ELSE IF existing_analytic # {}
             THEN Outcome("InvalidArgument", "analytics exists", anas)
             ELSE Outcome("ok", "created",
                          AnalyticRepository_create_analytic(
                              anas, next_id, analytic_data))

\* AnalyticService.update_analytic
update_analytic_result(anas, analytic_id, analytic_data) ==
    IF get_analytic_by_id(anas, analytic_id) = {}
    THEN Outcome("NotFound", "analytic", anas)
    ELSE Outcome("ok", "updated",
                 AnalyticRepository_update_analytic(anas, analytic_id,
                                                    analytic_data))

\* AnalyticService.delete_analytic
delete_analytic_result(anas, analytic_id) ==
    IF get_analytic_by_id(anas, analytic_id) = {}
    THEN Outcome("NotFound", "analytic", anas)
    ELSE Outcome("ok", "deleted",
                 AnalyticRepository_delete_analytic(anas, analytic_id))

\* analytic_service.py:93-116: the AnalyticCreate built from the stores
exam_analytic_data(regs, ress, exam_id) ==
    LET exam_registrations == get_exam_registrations(regs, exam_id)
        total_registrations == Cardinality(exam_registrations)
        total_paid == Cardinality({r \in exam_registrations :
                                      r.payment_status = "paid"})
    IN  [exam_id |-> exam_id,
         total_registrations |-> total_registrations,
         total_paid |-> total_paid,
         total_unpaid |-> total_registrations - total_paid,
         average_score |-> average_score_of(get_exam_results(ress, exam_id))]

\* AnalyticService.generate_exam_analytics.  get_exam_analytics gives one
\* AnalyticResponse, not a list: with a record stored, existing_analytic[0]
\* raises TypeError before update_analytic is called.
generate_exam_analytics_result(exs, regs, ress, anas, next_id, exam_id) ==
    IF get_exam_by_id(exs, exam_id) = {}
    THEN Outcome("NotFound", "exam", anas)
    ELSE LET analytic_data == exam_analytic_data(regs, ress, exam_id)
             existing_analytic == get_exam_analytics(anas, exam_id)
         IN  IF MultipleResultsFound(existing_analytic)
             THEN Outcome("Internal", "MultipleResultsFound", anas)
             ELSE IF existing_analytic # {}
             THEN Outcome("Internal", "TypeError", anas)
             ELSE create_analytic_result(exs, anas, next_id, analytic_data)

\* ------------------------------------------- location and exam services
\* LocationRepository.get_location_by_id
get_location_by_id(locs, location_id) ==
    {l \in DOMAIN locs : l = location_id}

\* LocationRepository.create_location: add and commit
LocationRepository_create_location(locs, next_id, location_data) ==
    locs @@ (next_id :> [capacity |-> location_data.capacity])

\* LocationRepository.update_location: setattr of the supplied fields
LocationRepository_update_location(locs, location_id, location_data) ==
    [locs EXCEPT ![location_id].capacity =
                     IF IsNone(location_data.capacity) THEN @
                     ELSE ValueOf(location_data.capacity)]

\* LocationService.create_location
create_location_result(locs, next_id, location_data) ==
    IF location_data.capacity <= 0
    THEN Outcome("InvalidArgument", "capacity", locs)
    ELSE Outcome("ok", "created",
                 LocationRepository_create_location(locs, next_id,
                                                    location_data))

\* LocationService.update_location
update_location_result(locs, location_id, location_data) ==
    IF get_location_by_id(locs, location_id) = {}
    THEN Outcome("NotFound", "location", locs)
    ELSE IF ~IsNone(location_data.capacity)
            /\ ValueOf(location_data.capacity) <= 0
    THEN Outcome("InvalidArgument", "capacity", locs)
    ELSE Outcome("ok", "updated",
                 LocationRepository_update_location(locs, location_id,
                                                    location_data))

\* LocationRepository.delete_location
LocationRepository_delete_location(locs, location_id) ==
    [l \in DOMAIN locs \ {location_id} |-> locs[l]]

\* LocationService.delete_location
delete_location_result(locs, location_id) ==
    IF get_location_by_id(locs, location_id) = {}
    THEN Outcome("NotFound", "location", locs)
    ELSE Outcome("ok", "deleted",
                 LocationRepository_delete_location(locs, location_id))

\* ExamRepository.create_exam: add and commit; a new exam is active and has
\* no registrations
ExamRepository_create_exam(exs, next_id, exam_data) ==
    exs @@ (next_id :> [date |-> exam_data.date,
                        status |-> "active",
                        capacity |-> exam_data.capacity,
                        current_registrations |-> 0,
                        price |-> exam_data.price,
                        location_id |-> exam_data.location_id])

\* ExamRepository.update_exam: setattr of the supplied fields
ExamRepository_update_exam(exs, exam_id, exam_data) ==
    [exs EXCEPT ![exam_id] =
        [@ EXCEPT !.date = IF IsNone(exam_data.date) THEN @
                           ELSE ValueOf(exam_data.date),
                  !.location_id = IF IsNone(exam_data.location_id) THEN @
                                  ELSE ValueOf(exam_data.location_id),
                  !.capacity = IF IsNone(exam_data.capacity) THEN @
                               ELSE ValueOf(exam_data.capacity),
                  !.price = IF IsNone(exam_data.price) THEN @
                            ELSE ValueOf(exam_data.price)]]

\* ExamRepository.delete_exam
ExamRepository_delete_exam(exs, exam_id) ==
    [e \in DOMAIN exs \ {exam_id} |-> exs[e]]

\* create_exam that turns down a capacity equal to the location's
create_exam_result_strict(locs, exs, t, next_id, exam_data) ==
    IF exam_data.date <= t
    THEN Outcome("InvalidArgument", "date", exs)
    ELSE IF get_location_by_id(locs, exam_data.location_id) = {}
    THEN Outcome("NotFound", "location", exs)
    ELSE IF exam_data.capacity >= locs[exam_data.location_id].capacity
    THEN Outcome("InvalidArgument", "capacity", exs)
    ELSE IF exam_data.price <= 0
    THEN Outcome("InvalidArgument", "price", exs)
    ELSE Outcome("ok", "created",
                 ExamRepository_create_exam(exs, next_id, exam_data))

\* ExamService.create_exam
create_exam_result(locs, exs, t, next_id, exam_data) ==
    IF exam_data.date <= t
    THEN Outcome("InvalidArgument", "date", exs)
    ELSE IF get_location_by_id(locs, exam_data.location_id) = {}
    THEN Outcome("NotFound", "location", exs)
    ELSE IF exam_data.capacity > locs[exam_data.location_id].capacity
    THEN Outcome("InvalidArgument", "capacity", exs)
    ELSE IF exam_data.price <= 0
    THEN Outcome("InvalidArgument", "price", exs)
    ELSE Outcome("ok", "created",
                 ExamRepository_create_exam(exs, next_id, exam_data))

\* ExamService.update_exam: the capacity is compared with the location's
\* only when a location_id is supplied
update_exam_result(locs, exs, t, exam_id, exam_data) ==
    IF get_exam_by_id(exs, exam_id) = {}
    THEN Outcome("NotFound", "exam", exs)
    ELSE IF ~IsNone(exam_data.date) /\ ValueOf(exam_data.date) <= t
    THEN Outcome("InvalidArgument", "date", exs)
    ELSE IF ~IsNone(exam_data.location_id)
            /\ get_location_by_id(locs, ValueOf(exam_data.location_id)) = {}
    THEN Outcome("NotFound", "location", exs)
    ELSE IF ~IsNone(exam_data.location_id)
            /\ (IF ~IsNone(exam_data.capacity)
                THEN ValueOf(exam_data.capacity)
                ELSE exs[exam_id].capacity)
                   > locs[ValueOf(exam_data.location_id)].capacity
    THEN Outcome("InvalidArgument", "capacity", exs)
    ELSE IF ~IsNone(exam_data.price) /\ ValueOf(exam_data.price) <= 0
    THEN Outcome("InvalidArgument", "price", exs)
    ELSE Outcome("ok", "updated",
                 ExamRepository_update_exam(exs, exam_id, exam_data))

\* ExamService.delete_exam: no look at what references the exam
delete_exam_result(exs, exam_id) ==
    IF get_exam_by_id(exs, exam_id) = {}
    THEN Outcome("NotFound", "exam", exs)
    ELSE Outcome("ok", "deleted", ExamRepository_delete_exam(exs, exam_id))

\* --------------------------------------------------------- user service
\* UserRepository.get_user_by_username
get_user_by_username(us, username) ==
    {u \in DOMAIN us : us[u].username = username}

\* UserRepository.get_user_by_email
get_user_by_email(us, email) == {u \in DOMAIN us : us[u].email = email}

\* core/models/users.py: username and email are unique columns; a commit
\* that would break either raises IntegrityError
UniqueViolation(us) ==
    \E u1 \in DOMAIN us, u2 \in DOMAIN us :
        /\ u1 # u2
        /\ \/ us[u1].username = us[u2].username
           \/ us[u1].email = us[u2].email

\* UserRepository.create_user: add and commit
UserRepository_create_user(us, next_id, user_data) ==
    LET written == us @@ (next_id :> [username |-> user_data.username,
                                      email |-> user_data.email])
    IN  IF UniqueViolation(written)
        THEN [raised |-> TRUE, users |-> us]
        ELSE [raised |-> FALSE, users |-> written]

\* UserRepository.update_user: setattr of the supplied fields and commit
UserRepository_update_user(us, user_id, user_data) ==
    LET written ==
            [us EXCEPT ![user_id] =
                [username |-> IF user_data.username = "unset" THEN @.username
                              ELSE user_data.username,
                 email |-> IF user_data.email = "unset" THEN @.email
                           ELSE user_data.email]]
    IN  IF UniqueViolation(written)
        THEN [raised |-> TRUE, users |-> us]
        ELSE [raised |-> FALSE, users |-> written]

\* UserRepository.delete_user
UserRepository_delete_user(us, user_id) ==
    [u \in DOMAIN us \ {user_id} |-> us[u]]

\* UserService.create_user
create_user_result(us, next_id, user_data) ==
    IF get_user_by_username(us, user_data.username) # {}
    THEN Outcome("InvalidArgument", "username", us)
    ELSE IF get_user_by_email(us, user_data.email) # {}
    THEN Outcome("InvalidArgument", "email", us)
    ELSE LET created == UserRepository_create_user(us, next_id, user_data)
         IN  IF created.raised
             THEN Outcome("Internal", "IntegrityError", us)
             ELSE Outcome("ok", "created", created.users)

\* update_user that compares with every record, the updated one included
update_user_result_strict(us, user_id, user_data) ==
    IF get_user_by_id(us, user_id) = {}
    THEN Outcome("NotFound", "user", us)
    ELSE IF Truthy(user_data.username)
            /\ get_user_by_username(us, user_data.username) # {}
    THEN Outcome("InvalidArgument", "username", us)
    ELSE IF Truthy(user_data.email)
            /\ get_user_by_email(us, user_data.email) # {}
    THEN Outcome("InvalidArgument", "email", us)
    ELSE LET updated == UserRepository_update_user(us, user_id, user_data)
         IN  IF updated.raised
             THEN Outcome("Internal", "IntegrityError", us)
             ELSE Outcome("ok", "updated", updated.users)

\* UserService.update_user
update_user_result(us, user_id, user_data) ==
    IF get_user_by_id(us, user_id) = {}
    THEN Outcome("NotFound", "user", us)
    ELSE IF Truthy(user_data.username)
            /\ get_user_by_username(us, user_data.username) \ {user_id} # {}
    THEN Outcome("InvalidArgument", "username", us)
    ELSE IF Truthy(user_data.email)
            /\ get_user_by_email(us, user_data.email) \ {user_id} # {}
    THEN Outcome("InvalidArgument", "email", us)
    ELSE LET updated == UserRepository_update_user(us, user_id, user_data)
         IN  IF updated.raised
             THEN Outcome("Internal", "IntegrityError", us)
             ELSE Outcome("ok", "updated", updated.users)

\* UserService.delete_user: no look at what references the user
delete_user_result(us, user_id) ==
    IF get_user_by_id(us, user_id) = {}
    THEN Outcome("NotFound", "user", us)
    ELSE Outcome("ok", "deleted", UserRepository_delete_user(us, user_id))

\* ---------------------------------------------------------------- actions
Call(op, id, user_id, exam_id, status, amount, r) ==
    [op |-> op, id |-> id, user_id |-> user_id, exam_id |-> exam_id,
     status |-> status, amount |-> amount,
     outcome |-> r.outcome, detail |-> r.detail]

NoCall ==
    [op |-> "none", id |-> 0, user_id |-> 0, exam_id |-> 0, status |-> "unset",
     amount |-> 0, outcome |-> "ok", detail |-> "none"]

RaceIdle == pc = [p \in Procs |-> "idle"]

Tick ==
    /\ RaceIdle
    /\ now < MaxTime
    /\ now' = now + 1
    /\ last' = [NoCall EXCEPT !.op = "tick"]
    /\ UNCHANGED <<catalogue, users, exams, registrations, payments, nextRegistrationId,
                   nextPaymentId, pc, req, res>>

create_registration ==
    \E user_id \in UserIds, exam_id \in ExamIds,
       status \in RegistrationStatuses,
       payment_status \in RegistrationPaymentStatuses :
        LET r == create_registration_result(
                     users, exams, registrations, payments, now,
                     nextRegistrationId,
                     [user_id |-> user_id, exam_id |-> exam_id,
                      status |-> status, payment_status |-> payment_status])
        IN  /\ RaceIdle
            /\ r.outcome = "ok" => nextRegistrationId <= MaxRegistrations
            /\ registrations' = r.registrations
            /\ nextRegistrationId' =
                   IF r.outcome = "ok" THEN nextRegistrationId + 1
                   ELSE nextRegistrationId
            /\ last' = Call("create_registration", 0, user_id, exam_id,
                            status, 0, r)
            /\ UNCHANGED <<catalogue, now, users, exams, payments, nextPaymentId,
                           pc, req, res>>

update_registration ==
    \E registration_id \in RegistrationIds,
       status \in RegistrationStatuses \cup {"unset", ""},
       payment_status \in RegistrationPaymentStatuses \cup {"unset"} :
        LET r == update_registration_result(
                     exams, registrations, payments, now, registration_id,
                     [status |-> status, payment_status |-> payment_status])
        IN  /\ RaceIdle
            /\ registrations' = r.registrations
            /\ last' = Call("update_registration", registration_id, 0, 0,
                            status, 0, r)
            /\ UNCHANGED <<catalogue, now, users, exams, payments, nextRegistrationId,
                           nextPaymentId, pc, req, res>>

delete_registration ==
    \E registration_id \in RegistrationIds :
        LET r == delete_registration_result(
                     exams, registrations, payments, now, registration_id)
        IN  /\ RaceIdle
            /\ registrations' = r.registrations
            /\ last' = Call("delete_registration", registration_id, 0, 0,
                            "unset", 0, r)
            /\ UNCHANGED <<catalogue, now, users, exams, payments, nextRegistrationId,
                           nextPaymentId, pc, req, res>>

check_registration_availability ==
    \E user_id \in UserIds, exam_id \in ExamIds :
        LET r == check_registration_availability_result(
                     exams, registrations, now, user_id, exam_id)
        IN  /\ RaceIdle
            /\ last' = [op |-> "check_registration_availability",
                        user_id |-> user_id, exam_id |-> exam_id,
                        outcome |-> r.outcome, detail |-> r.reason,
                        available |-> r.available, reason |-> r.reason]
            /\ UNCHANGED <<catalogue, now, users, exams, registrations,
                           payments, nextRegistrationId, nextPaymentId,
                           pc, req, res>>

create_payment ==
    \E user_id \in UserIds, exam_id \in ExamIds, amount \in Amounts,
       status \in PaymentStatusInputs :
        LET r == create_payment_result(
                     users, exams, registrations, payments, nextPaymentId,
                     [user_id |-> user_id, exam_id |-> exam_id,
                      amount |-> amount, status |-> status])
        IN  /\ RaceIdle
            /\ r.outcome = "ok" => nextPaymentId <= MaxPayments
            /\ payments' = r.payments
            /\ registrations' = r.registrations
            /\ nextPaymentId' =
                   IF r.outcome = "ok" THEN nextPaymentId + 1 ELSE nextPaymentId
            /\ last' = Call("create_payment", 0, user_id, exam_id, status,
                            amount, r)
            /\ UNCHANGED <<catalogue, now, users, exams, nextRegistrationId, pc, req, res>>

update_payment ==
    \E payment_id \in PaymentIds, status \in PaymentStatusInputs \cup {"unset"} :
        LET r == update_payment_result(registrations, payments, payment_id,
                                       [status |-> status])
        IN  /\ RaceIdle
            /\ payments' = r.payments
            /\ registrations' = r.registrations
            /\ last' = Call("update_payment", payment_id, 0, 0, status, 0, r)
            /\ UNCHANGED <<catalogue, now, users, exams, nextRegistrationId,
                           nextPaymentId, pc, req, res>>

delete_payment ==
    \E payment_id \in PaymentIds :
        LET r == delete_payment_result(registrations, payments, payment_id)
        IN  /\ RaceIdle
            /\ payments' = r.payments
            /\ registrations' = r.registrations
            /\ last' = Call("delete_payment", payment_id, 0, 0, "unset", 0, r)
            /\ UNCHANGED <<catalogue, now, users, exams, nextRegistrationId,
                           nextPaymentId, pc, req, res>>

process_refund ==
    \E payment_id \in PaymentIds :
        LET r == process_refund_result(registrations, payments, payment_id)
        IN  /\ RaceIdle
            /\ payments' = r.payments
            /\ registrations' = r.registrations
            /\ last' = Call("process_refund", payment_id, 0, 0, "unset", 0, r)
            /\ UNCHANGED <<catalogue, now, users, exams, nextRegistrationId,
                           nextPaymentId, pc, req, res>>

create_result ==
    \E user_id \in UserIds, exam_id \in ExamIds, score \in ScoreInputs :
        LET r == create_result_result(
                     users, exams, registrations, results, nextResultId,
                     [user_id |-> user_id, exam_id |-> exam_id,
                      score |-> score, grade |-> "A"])
        IN  /\ RaceIdle
            /\ r.outcome = "ok" => nextResultId <= MaxResults
            /\ results' = r.rows
            /\ nextResultId' =
                   IF r.outcome = "ok" THEN nextResultId + 1 ELSE nextResultId
            /\ last' = [op |-> "create_result", user_id |-> user_id,
                        exam_id |-> exam_id, score |-> score,
                        outcome |-> r.outcome, detail |-> r.detail]
            /\ UNCHANGED <<now, users, locations, exams, registrations,
                           payments, analytics, nextRegistrationId,
                           nextPaymentId, nextUserId, nextLocationId,
                           nextExamId, nextAnalyticId, pc, req, res>>

update_result ==
    \E result_id \in ResultIds, score_set \in BOOLEAN, score \in ScoreInputs,
       grade \in {"unset", "F", "Z"} :
        LET r == update_result_result(
                     results, result_id,
                     [score_set |-> score_set, score |-> score,
                      grade |-> grade])
        IN  /\ RaceIdle
            /\ score_set \/ score = {}
            /\ results' = r.rows
            /\ last' = [op |-> "update_result", id |-> result_id,
                        score |-> score, grade |-> grade,
                        outcome |-> r.outcome, detail |-> r.detail]
            /\ UNCHANGED <<now, users, locations, exams, registrations,
                           payments, analytics, nextRegistrationId,
                           nextPaymentId, nextUserId, nextLocationId,
                           nextExamId, nextResultId, nextAnalyticId,
                           pc, req, res>>

delete_result ==
    \E result_id \in ResultIds :
        LET r == delete_result_result(results, result_id)
        IN  /\ RaceIdle
            /\ results' = r.rows
            /\ last' = [op |-> "delete_result", id |-> result_id,
                        outcome |-> r.outcome, detail |-> r.detail]
            /\ UNCHANGED <<now, users, locations, exams, registrations,
                           payments, analytics, nextRegistrationId,
                           nextPaymentId, nextUserId, nextLocationId,
                           nextExamId, nextResultId, nextAnalyticId,
                           pc, req, res>>

calculate_grade ==
    \E score \in 0..MaxScore :
        /\ RaceIdle
        /\ last' = [op |-> "calculate_grade", score |-> score,
                    grade |-> calculate_grade_result(score),
                    outcome |-> "ok", detail |-> "grade"]
        /\ UNCHANGED <<now, users, locations, exams, registrations,
                       payments, results, analytics, nextRegistrationId,
                       nextPaymentId, nextUserId, nextLocationId,
                       nextExamId, nextResultId, nextAnalyticId,
                       pc, req, res>>

create_analytic ==
    \E exam_id \in ExamIds, total_registrations \in CountInputs,
       total_paid \in CountInputs, total_unpaid \in CountInputs :
        LET r == create_analytic_result(
                     exams, analytics, nextAnalyticId,
                     [exam_id |-> exam_id,
                      total_registrations |-> total_registrations,
                      total_paid |-> total_paid,
                      total_unpaid |-> total_unpaid,
                      average_score |-> {}])
        IN  /\ RaceIdle
            /\ r.outcome = "ok" => nextAnalyticId <= MaxAnalytics
            /\ analytics' = r.rows
            /\ nextAnalyticId' =
                   IF r.outcome = "ok" THEN nextAnalyticId + 1
                   ELSE nextAnalyticId
            /\ last' = [op |-> "create_analytic", exam_id |-> exam_id,
                        outcome |-> r.outcome, detail |-> r.detail]
            /\ UNCHANGED <<now, users, locations, exams, registrations,
                           payments, results, nextRegistrationId,
                           nextPaymentId, nextUserId, nextLocationId,
                           nextExamId, nextResultId, pc, req, res>>

update_analytic ==
    \E analytic_id \in AnalyticIds,
       total_registrations \in {{}} \cup {{n} : n \in CountInputs},
       total_paid \in {{}} \cup {{n} : n \in CountInputs},
       average_score_set \in BOOLEAN :
        LET r == update_analytic_result(
                     analytics, analytic_id,
                     [total_registrations |-> total_registrations,
                      total_paid |-> total_paid,
                      total_unpaid |-> {},
                      average_score_set |-> average_score_set,
                      average_score |-> {}])
        IN  /\ RaceIdle
            /\ analytics' = r.rows
            /\ last' = [op |-> "update_analytic", id |-> analytic_id,
                        outcome |-> r.outcome, detail |-> r.detail]
            /\ UNCHANGED <<now, users, locations, exams, registrations,
                           payments, results, nextRegistrationId,
                           nextPaymentId, nextUserId, nextLocationId,
                           nextExamId, nextResultId, nextAnalyticId,
                           pc, req, res>>

delete_analytic ==
    \E analytic_id \in AnalyticIds :
        LET r == delete_analytic_result(analytics, analytic_id)
        IN  /\ RaceIdle
            /\ analytics' = r.rows
            /\ last' = [op |-> "delete_analytic", id |-> analytic_id,
                        outcome |-> r.outcome, detail |-> r.detail]
            /\ UNCHANGED <<now, users, locations, exams, registrations,
                           payments, results, nextRegistrationId,
                           nextPaymentId, nextUserId, nextLocationId,
                           nextExamId, nextResultId, nextAnalyticId,
                           pc, req, res>>

generate_exam_analytics ==
    \E exam_id \in ExamIds :
        LET r == generate_exam_analytics_result(
                     exams, registrations, results, analytics,
                     nextAnalyticId, exam_id)
        IN  /\ RaceIdle
            /\ r.outcome = "ok" => nextAnalyticId <= MaxAnalytics
            /\ analytics' = r.rows
            /\ nextAnalyticId' =
                   IF r.outcome = "ok" THEN nextAnalyticId + 1
                   ELSE nextAnalyticId
            /\ last' = [op |-> "generate_exam_analytics",
                        exam_id |-> exam_id,
                        outcome |-> r.outcome, detail |-> r.detail]
            /\ UNCHANGED <<now, users, locations, exams, registrations,
                           payments, results, nextRegistrationId,
                           nextPaymentId, nextUserId, nextLocationId,
                           nextExamId, nextResultId, pc, req, res>>

create_location ==
    \E capacity \in LocationCapacityInputs :
        LET r == create_location_result(locations, nextLocationId,
                                        [capacity |-> capacity])
        IN  /\ RaceIdle
            /\ r.outcome = "ok" => nextLocationId <= MaxLocations
            /\ locations' = r.rows
            /\ nextLocationId' =
                   IF r.outcome = "ok" THEN nextLocationId + 1
                   ELSE nextLocationId
            /\ last' = [op |-> "create_location", capacity |-> capacity,
                        outcome |-> r.outcome, detail |-> r.detail]
            /\ UNCHANGED <<now, users, exams, registrations, payments,
                           results, analytics, nextRegistrationId,
                           nextPaymentId, nextUserId, nextExamId,
                           nextResultId, nextAnalyticId, pc, req, res>>

update_location ==
    \E location_id \in LocationIds,
       capacity \in {{}} \cup {{c} : c \in LocationCapacityInputs} :
        LET r == update_location_result(locations, location_id,
                                        [capacity |-> capacity])
        IN  /\ RaceIdle
            /\ locations' = r.rows
            /\ last' = [op |-> "update_location", id |-> location_id,
                        capacity |-> capacity,
                        outcome |-> r.outcome, detail |-> r.detail]
            /\ UNCHANGED <<now, users, exams, registrations, payments,
                           results, analytics, nextRegistrationId,
                           nextPaymentId, nextUserId, nextLocationId,
                           nextExamId, nextResultId, nextAnalyticId,
                           pc, req, res>>

delete_location ==
    \E location_id \in LocationIds :
        LET r == delete_location_result(locations, location_id)
        IN  /\ RaceIdle
            /\ locations' = r.rows
            /\ last' = [op |-> "delete_location", id |-> location_id,
                        outcome |-> r.outcome, detail |-> r.detail]
            /\ UNCHANGED <<now, users, exams, registrations, payments,
                           results, analytics, nextRegistrationId,
                           nextPaymentId, nextUserId, nextLocationId,
                           nextExamId, nextResultId, nextAnalyticId,
                           pc, req, res>>

create_exam ==
    \E date \in 0..MaxTime, location_id \in LocationIds,
       capacity \in ExamCapacityInputs, price \in PriceInputs :
        LET r == create_exam_result(
                     locations, exams, now, nextExamId,
                     [date |-> date, location_id |-> location_id,
                      capacity |-> capacity, price |-> price])
        IN  /\ RaceIdle
            /\ r.outcome = "ok" => nextExamId <= MaxExams
            /\ exams' = r.rows
            /\ nextExamId' =
                   IF r.outcome = "ok" THEN nextExamId + 1 ELSE nextExamId
            /\ last' = [op |-> "create_exam", date |-> date,
                        location_id |-> location_id, capacity |-> capacity,
                        price |-> price,
                        outcome |-> r.outcome, detail |-> r.detail]
            /\ UNCHANGED <<now, users, locations, registrations, payments,
                           results, analytics, nextRegistrationId,
                           nextPaymentId, nextUserId, nextLocationId,
                           nextResultId, nextAnalyticId, pc, req, res>>

update_exam ==
    \E exam_id \in ExamIds,
       location_id \in {{}} \cup {{l} : l \in LocationIds},
       capacity \in {{}} \cup {{c} : c \in ExamCapacityInputs} :
        LET r == update_exam_result(
                     locations, exams, now, exam_id,
                     [date |-> {}, location_id |-> location_id,
                      capacity |-> capacity, price |-> {}])
        IN  /\ RaceIdle
            /\ exams' = r.rows
            /\ last' = [op |-> "update_exam", id |-> exam_id,
                        location_id |-> location_id, capacity |-> capacity,
                        outcome |-> r.outcome, detail |-> r.detail]
            /\ UNCHANGED <<now, users, locations, registrations, payments,
                           results, analytics, nextRegistrationId,
                           nextPaymentId, nextUserId, nextLocationId,
                           nextExamId, nextResultId, nextAnalyticId,
                           pc, req, res>>

delete_exam ==
    \E exam_id \in ExamIds :
        LET r == delete_exam_result(exams, exam_id)
        IN  /\ RaceIdle
            /\ exams' = r.rows
            /\ last' = [op |-> "delete_exam", id |-> exam_id,
                        outcome |-> r.outcome, detail |-> r.detail]
            /\ UNCHANGED <<now, users, locations, registrations, payments,
                           results, analytics, nextRegistrationId,
                           nextPaymentId, nextUserId, nextLocationId,
                           nextExamId, nextResultId, nextAnalyticId,
                           pc, req, res>>

create_user ==
    \E username \in UserNameInputs, email \in EmailInputs :
        LET r == create_user_result(users, nextUserId,
                                    [username |-> username, email |-> email])
        IN  /\ RaceIdle
            /\ r.outcome = "ok" => nextUserId <= MaxUsers
            /\ users' = r.rows
            /\ nextUserId' =
                   IF r.outcome = "ok" THEN nextUserId + 1 ELSE nextUserId
            /\ last' = [op |-> "create_user", username |-> username,
                        email |-> email,
                        outcome |-> r.outcome, detail |-> r.detail]
            /\ UNCHANGED <<now, locations, exams, registrations, payments,
                           results, analytics, nextRegistrationId,
                           nextPaymentId, nextLocationId, nextExamId,
                           nextResultId, nextAnalyticId, pc, req, res>>

update_user ==
    \E user_id \in UserIds, username \in UserNameInputs \cup {"unset", ""},
       email \in EmailInputs \cup {"unset"} :
        LET r == update_user_result(users, user_id,
                                    [username |-> username, email |-> email])
        IN  /\ RaceIdle
            /\ users' = r.rows
            /\ last' = [op |-> "update_user", id |-> user_id,
                        username |-> username, email |-> email,
                        outcome |-> r.outcome, detail |-> r.detail]
            /\ UNCHANGED <<now, locations, exams, registrations, payments,
                           results, analytics, nextRegistrationId,
                           nextPaymentId, nextUserId, nextLocationId,
                           nextExamId, nextResultId, nextAnalyticId,
                           pc, req, res>>

delete_user ==
    \E user_id \in UserIds :
        LET r == delete_user_result(users, user_id)
        IN  /\ RaceIdle
            /\ users' = r.rows
            /\ last' = [op |-> "delete_user", id |-> user_id,
                        outcome |-> r.outcome, detail |-> r.detail]
            /\ UNCHANGED <<now, locations, exams, registrations, payments,
                           results, analytics, nextRegistrationId,
                           nextPaymentId, nextUserId, nextLocationId,
                           nextExamId, nextResultId, nextAnalyticId,
                           pc, req, res>>

\* ------------------------------------------------------------ specification
\* the rows of the users Students: each has a username and an email of its own
StudentRows ==
    [u \in Students |-> [username |-> UserNames[u], email |-> Emails[u]]]

\* the hall the seeded exams are held in
HallRows == [l \in {1} |-> [capacity |-> 1]]

\* no request is under way and no call has ended
NoRequests ==
    /\ last = NoCall
    /\ pc = [p \in Procs |-> "idle"]
    /\ req = [p \in Procs |-> [user_id |-> 0, exam_id |-> 0,
                              status |-> "unset", payment_status |-> "unset"]]
    /\ res = [p \in Procs |-> "none"]

\* the serial keys after the users Students, the hall and the seeded exams
NewSerials ==
    /\ nextUserId = Cardinality(Students) + 1
    /\ nextLocationId = Cardinality(DOMAIN HallRows) + 1
    /\ nextExamId = Cardinality(ExamIds) + 1
    /\ nextResultId = 1
    /\ nextAnalyticId = 1

ExamRows ==
    [date : ExamDates, status : ExamStatuses, capacity : ExamCapacities,
     current_registrations : {0}, price : {1}, location_id : {1}]

\* an exam open for registration, at each price
OpenExamRows ==
    [date : {1}, status : {"active"}, capacity : {1},
     current_registrations : {0}, price : Prices, location_id : {1}]

\* an exam open for registration
OpenExam ==
    [date |-> 1, status |-> "active", capacity |-> 1,
     current_registrations |-> 0, price |-> 1, location_id |-> 1]

\* the users Students and exam 1 have been created; nothing is registered
Init ==
    /\ now = 0
    /\ users = StudentRows
    /\ exams \in [{1} -> ExamRows]
    /\ registrations = {}
    /\ payments = {}
    /\ nextRegistrationId = 1
    /\ locations = HallRows
    /\ results = {}
    /\ analytics = {}
    /\ nextPaymentId = 1
    /\ NewSerials
    /\ NoRequests

Next ==
    \/ Tick
    \/ create_registration
    \/ update_registration
    \/ delete_registration
    \/ check_registration_availability
    \/ create_payment
    \/ update_payment
    \/ delete_payment
    \/ process_refund
    \/ create_result
    \/ update_result
    \/ delete_result
    \/ calculate_grade
    \/ create_analytic
    \/ update_analytic
    \/ delete_analytic
    \/ generate_exam_analytics
    \/ create_location
    \/ update_location
    \/ delete_location
    \/ create_exam
    \/ update_exam
    \/ delete_exam
    \/ create_user
    \/ update_user
    \/ delete_user

Spec == Init /\ [][Next]_vars

\* registration service alone, calls one at a time
NextReg ==
    \/ Tick
    \/ create_registration
    \/ update_registration
    \/ delete_registration

SpecReg == Init /\ [][NextReg]_vars

\* payment service alone, calls one at a time, after any of the users has
\* registered for exam 1
InitPay ==
    /\ now = 0
    /\ users = StudentRows
    /\ exams \in [{1} -> OpenExamRows]
    /\ \E registered \in SUBSET Students :
           registrations =
               {[id |-> u, user_id |-> u, exam_id |-> 1,
                 status |-> "confirmed", payment_status |-> "unpaid"] :
                u \in registered}
    /\ payments = {}
    /\ nextRegistrationId = Cardinality(Students) + 1
    /\ locations = HallRows
    /\ results = {}
    /\ analytics = {}
    /\ nextPaymentId = 1
    /\ NewSerials
    /\ NoRequests

NextPay ==
    \/ create_payment
    \/ update_payment
    \/ delete_payment
    \/ process_refund

SpecPay == InitPay /\ [][NextPay]_vars

\* two create_registration requests, each at its own repository call
RaceStart(p) ==
    \E user_id \in UserIds, exam_id \in ExamIds :
        /\ pc[p] = "idle"
        /\ pc' = [pc EXCEPT ![p] = "get_user"]
        /\ req' = [req EXCEPT ![p] = [user_id |-> user_id, exam_id |-> exam_id,
                                      status |-> "pending",
                                      payment_status |-> "unpaid"]]
        /\ UNCHANGED <<catalogue, now, users, exams, registrations, payments,
                       nextRegistrationId, nextPaymentId, last, res>>

RaceEnd(p, outcome) ==
    /\ pc' = [pc EXCEPT ![p] = "done"]
    /\ res' = [res EXCEPT ![p] = outcome]

\* registration_service.py:38-43
RaceGetUser(p) ==
    /\ pc[p] = "get_user"
    /\ IF get_user_by_id(users, req[p].user_id) = {}
       THEN RaceEnd(p, "NotFound")
       ELSE pc' = [pc EXCEPT ![p] = "get_exam"] /\ res' = res
    /\ UNCHANGED <<catalogue, now, users, exams, registrations, payments,
                   nextRegistrationId, nextPaymentId, last, req>>

\* registration_service.py:46-72
RaceGetExam(p) ==
    /\ pc[p] = "get_exam"
    /\ IF get_exam_by_id(exams, req[p].exam_id) = {}
       THEN RaceEnd(p, "NotFound")
       ELSE IF \/ exams[req[p].exam_id].date <= now
               \/ exams[req[p].exam_id].status # "active"
               \/ exams[req[p].exam_id].current_registrations
                      >= exams[req[p].exam_id].capacity
       THEN RaceEnd(p, "InvalidArgument")
       ELSE pc' = [pc EXCEPT ![p] = "get_existing"] /\ res' = res
    /\ UNCHANGED <<catalogue, now, users, exams, registrations, payments,
                   nextRegistrationId, nextPaymentId, last, req>>

\* registration_service.py:75-83
RaceGetExisting(p) ==
    /\ pc[p] = "get_existing"
    /\ LET existing_registration ==
               get_user_exam_registration(registrations, req[p].user_id,
                                          req[p].exam_id)
       IN  IF MultipleResultsFound(existing_registration)
           THEN RaceEnd(p, "Internal")
           ELSE IF existing_registration # {}
           THEN RaceEnd(p, "InvalidArgument")
           ELSE pc' = [pc EXCEPT ![p] = "insert"] /\ res' = res
    /\ UNCHANGED <<catalogue, now, users, exams, registrations, payments,
                   nextRegistrationId, nextPaymentId, last, req>>

\* registration_service.py:85
RaceInsert(p) ==
    /\ pc[p] = "insert"
    /\ registrations' = RegistrationRepository_create_registration(
                            registrations, nextRegistrationId, req[p])
    /\ nextRegistrationId' = nextRegistrationId + 1
    /\ RaceEnd(p, "ok")
    /\ UNCHANGED <<catalogue, now, users, exams, payments, nextPaymentId, last, req>>

NextRace ==
    \E p \in Procs :
        \/ RaceStart(p)
        \/ RaceGetUser(p)
        \/ RaceGetExam(p)
        \/ RaceGetExisting(p)
        \/ RaceInsert(p)

SpecRace == Init /\ [][NextRace]_vars

\* result service alone, calls one at a time, after any of the users has
\* registered for exam 1, in any status
InitRes ==
    /\ now = 0
    /\ users = StudentRows
    /\ locations = HallRows
    /\ exams = [e \in {1} |-> OpenExam]
    /\ \E registered \in SUBSET Students,
          status \in [Students -> {"pending", "confirmed", "cancelled"}] :
           registrations =
               {[id |-> u, user_id |-> u, exam_id |-> 1,
                 status |-> status[u], payment_status |-> "unpaid"] :
                u \in registered}
    /\ payments = {}
    /\ results = {}
    /\ analytics = {}
    /\ nextRegistrationId = Cardinality(Students) + 1
    /\ nextPaymentId = 1
    /\ NewSerials
    /\ NoRequests

NextRes ==
    \/ create_result
    \/ update_result
    \/ delete_result

SpecRes == InitRes /\ [][NextRes]_vars

\* registrations the analytics are computed from: two of exam 1, one paid
\* and one not, and one of exam 2
SeedRegistrations ==
    {[id |-> 1, user_id |-> 1, exam_id |-> 1,
      status |-> "confirmed", payment_status |-> "paid"],
     [id |-> 2, user_id |-> 2, exam_id |-> 1,
      status |-> "confirmed", payment_status |-> "unpaid"],
     [id |-> 3, user_id |-> 1, exam_id |-> 2,
      status |-> "confirmed", payment_status |-> "paid"]}

\* exams 1 and 2 are open and any of the seed registrations is stored
InitGen ==
    /\ now = 0
    /\ users = StudentRows
    /\ locations = HallRows
    /\ exams = [e \in ExamIds |-> OpenExam]
    /\ registrations \in SUBSET SeedRegistrations
    /\ payments = {}
    /\ results = {}
    /\ analytics = {}
    /\ nextRegistrationId = Cardinality(SeedRegistrations) + 1
    /\ nextPaymentId = 1
    /\ NewSerials
    /\ NoRequests

\* results come in and analytics are generated from them
NextGen ==
    \/ create_result
    \/ generate_exam_analytics

SpecGen == InitGen /\ [][NextGen]_vars

\* analytic service alone, calls one at a time
NextAna ==
    \/ create_analytic
    \/ update_analytic
    \/ delete_analytic
    \/ generate_exam_analytics

SpecAna == InitGen /\ [][NextAna]_vars

\* nothing has been created yet
InitEmpty ==
    /\ now = 0
    /\ users = <<>>
    /\ locations = <<>>
    /\ exams = <<>>
    /\ registrations = {}
    /\ payments = {}
    /\ results = {}
    /\ analytics = {}
    /\ nextRegistrationId = 1
    /\ nextPaymentId = 1
    /\ nextUserId = 1
    /\ nextLocationId = 1
    /\ nextExamId = 1
    /\ nextResultId = 1
    /\ nextAnalyticId = 1
    /\ NoRequests

\* location and exam services, calls one at a time
NextExam ==
    \/ Tick
    \/ create_location
    \/ update_location
    \/ create_exam
    \/ update_exam

SpecExam == InitEmpty /\ [][NextExam]_vars

\* user service, calls one at a time
NextUser ==
    \/ create_user
    \/ update_user

SpecUser == InitEmpty /\ [][NextUser]_vars

\* any of the users has registered for exam 1 and any of those has a
\* pending payment
InitOrphan ==
    /\ now = 0
    /\ users = StudentRows
    /\ locations = HallRows
    /\ exams = [e \in {1} |-> OpenExam]
    /\ \E registered \in SUBSET Students :
           /\ registrations =
                  {[id |-> u, user_id |-> u, exam_id |-> 1,
                    status |-> "confirmed", payment_status |-> "unpaid"] :
                   u \in registered}
           /\ \E paying \in SUBSET registered :
                  payments =
                      {[id |-> u, user_id |-> u, exam_id |-> 1,
                        amount |-> OpenExam.price, status |-> "pending"] :
                       u \in paying}
    /\ results = {}
    /\ analytics = {}
    /\ nextRegistrationId = Cardinality(Students) + 1
    /\ nextPaymentId = Cardinality(Students) + 1
    /\ NewSerials
    /\ NoRequests

\* users and exams are deleted under their registrations, payments and
\* analytics
NextOrphan ==
    \/ delete_user
    \/ delete_exam
    \/ delete_registration
    \/ update_payment
    \/ generate_exam_analytics

SpecOrphan == InitOrphan /\ [][NextOrphan]_vars

\* every table holds rows: any of the users has registered for exam 1, any
\* of those has paid or is paying, any of those has a result, and an analytic
\* of exam 1 may be stored; the exam may lie ahead or behind
InitAny ==
    /\ now \in 0..MaxTime
    /\ users = StudentRows
    /\ locations = HallRows
    /\ exams = [e \in {1} |-> OpenExam]
    /\ \E registered \in SUBSET Students :
           /\ registrations =
                  {[id |-> u, user_id |-> u, exam_id |-> 1,
                    status |-> "confirmed", payment_status |-> "unpaid"] :
                   u \in registered}
           /\ \E paying \in SUBSET registered,
                 status \in {"pending", "completed"} :
                  payments =
                      {[id |-> u, user_id |-> u, exam_id |-> 1,
                        amount |-> OpenExam.price, status |-> status] :
                       u \in paying}
           /\ \E graded \in SUBSET registered :
                  results =
                      {[id |-> u, user_id |-> u, exam_id |-> 1,
                        score |-> {100}, grade |-> "A"] : u \in graded}
    /\ analytics \in SUBSET {[id |-> 1, exam_id |-> 1,
                              total_registrations |-> 0, total_paid |-> 0,
                              total_unpaid |-> 0, average_score |-> {}]}
    /\ nextRegistrationId = Cardinality(Students) + 1
    /\ nextPaymentId = Cardinality(Students) + 1
    /\ nextResultId = Cardinality(Students) + 1
    /\ nextAnalyticId = 2
    /\ nextUserId = Cardinality(Students) + 1
    /\ nextLocationId = Cardinality(DOMAIN HallRows) + 1
    /\ nextExamId = Cardinality(ExamIds) + 1
    /\ NoRequests

\* no call has been made yet
FirstCall == last.op = "none"

\* one create, update or delete call of any of the seven services
NextOnce ==
    \/ FirstCall /\ create_registration
    \/ FirstCall /\ update_registration
    \/ FirstCall /\ delete_registration
    \/ FirstCall /\ create_payment
    \/ FirstCall /\ update_payment
    \/ FirstCall /\ delete_payment
    \/ FirstCall /\ create_result
    \/ FirstCall /\ update_result
    \/ FirstCall /\ delete_result
    \/ FirstCall /\ create_analytic
    \/ FirstCall /\ update_analytic
    \/ FirstCall /\ delete_analytic
    \/ FirstCall /\ create_location
    \/ FirstCall /\ update_location
    \/ FirstCall /\ delete_location
    \/ FirstCall /\ create_exam
    \/ FirstCall /\ update_exam
    \/ FirstCall /\ delete_exam
    \/ FirstCall /\ create_user
    \/ FirstCall /\ update_user
    \/ FirstCall /\ delete_user

SpecOnce == InitAny /\ [][NextOnce]_vars

\* exam 1 is in any condition and the first of the users may have
\* registered for it
InitAvail ==
    /\ now = 0
    /\ users = StudentRows
    /\ locations = HallRows
    /\ exams \in [{1} -> ExamRows]
    /\ \E registered \in SUBSET {1} :
           registrations =
               {[id |-> u, user_id |-> u, exam_id |-> 1,
                 status |-> "confirmed", payment_status |-> "unpaid"] :
                u \in registered}
    /\ payments = {}
    /\ results = {}
    /\ analytics = {}
    /\ nextRegistrationId = 2
    /\ nextPaymentId = 1
    /\ NewSerials
    /\ NoRequests

\* availability is asked for between registration calls
NextAvail ==
    \/ Tick
    \/ check_registration_availability
    \/ create_registration
    \/ delete_registration

SpecAvail == InitAvail /\ [][NextAvail]_vars

\* grades are asked for, one score at a time
SpecGrade == InitEmpty /\ [][calculate_grade]_vars

\* any of the users has registered for exam 1 and has a completed payment
\* for it, whose id is the id of the registration
InitKeep ==
    /\ now = 0
    /\ users = StudentRows
    /\ locations = HallRows
    /\ exams = [e \in {1} |-> OpenExam]
    /\ \E registered \in SUBSET Students :
           /\ registrations =
                  {[id |-> u, user_id |-> u, exam_id |-> 1,
                    status |-> "confirmed", payment_status |-> "unpaid"] :
                   u \in registered}
           /\ payments =
                  {[id |-> u, user_id |-> u, exam_id |-> 1,
                    amount |-> OpenExam.price, status |-> "completed"] :
                   u \in registered}
    /\ results = {}
    /\ analytics = {}
    /\ nextRegistrationId = Cardinality(Students) + 1
    /\ nextPaymentId = Cardinality(Students) + 1
    /\ NewSerials
    /\ NoRequests

\* stored payments are updated and deleted
NextKeep ==
    \/ update_payment
    \/ delete_payment

SpecKeep == InitKeep /\ [][NextKeep]_vars

\* registrations are made and withdrawn, calls one at a time
NextSeat ==
    \/ create_registration
    \/ delete_registration

SpecSeat == Init /\ [][NextSeat]_vars

\* exam 1 is open and nobody is registered or has paid; the registrations
\* made and withdrawn earlier have used the serial keys below the last one
InitLedger ==
    /\ now = 0
    /\ users = StudentRows
    /\ locations = HallRows
    /\ exams = [e \in {1} |-> OpenExam]
    /\ registrations = {}
    /\ payments = {}
    /\ results = {}
    /\ analytics = {}
    /\ nextRegistrationId = MaxRegistrations
    /\ nextPaymentId = 1
    /\ NewSerials
    /\ NoRequests

\* registration and payment services together, calls one at a time
NextLedger ==
    \/ create_registration
    \/ update_registration
    \/ delete_registration
    \/ create_payment
    \/ update_payment
    \/ delete_payment
    \/ process_refund

SpecLedger == InitLedger /\ [][NextLedger]_vars

\* any of the users is registered for exam 1, paid or unpaid, and any of the
\* users has a payment for it, pending or completed; no request is under way
InitSteps ==
    /\ now = 0
    /\ users = StudentRows
    /\ locations = HallRows
    /\ exams = [e \in {1} |-> OpenExam]
    /\ \E registered \in SUBSET Students,
          payment_status \in [Students -> RegistrationPaymentStatuses] :
           registrations =
               {[id |-> u, user_id |-> u, exam_id |-> 1,
                 status |-> "confirmed",
                 payment_status |-> payment_status[u]] : u \in registered}
    /\ \E paying \in SUBSET Students,
          status \in [Students -> {"pending", "completed"}] :
           payments =
               {[id |-> u, user_id |-> u, exam_id |-> 1,
                 amount |-> OpenExam.price, status |-> status[u]] :
                u \in paying}
    /\ results = {}
    /\ analytics = {}
    /\ nextRegistrationId = Cardinality(Students) + 1
    /\ nextPaymentId = Cardinality(Students) + 1
    /\ NewSerials
    /\ last = NoCall
    /\ pc = [p \in Procs |-> "idle"]
    /\ req = [p \in Procs |-> [op |-> "none", payment_id |-> 0,
                              user_id |-> 0, exam_id |-> 0]]
    /\ res = [p \in Procs |-> "none"]

\* a request update_payment(status = "completed") or process_refund arrives
PayStart(p) ==
    \E op \in {"update_payment", "process_refund"}, payment_id \in PaymentIds :
        /\ pc[p] = "idle"
        /\ pc' = [pc EXCEPT ![p] = "get_payment"]
        /\ req' = [req EXCEPT ![p] = [op |-> op, payment_id |-> payment_id,
                                      user_id |-> 0, exam_id |-> 0]]
        /\ UNCHANGED <<catalogue, now, users, exams, registrations, payments,
                       nextRegistrationId, nextPaymentId, last, res>>

\* payment_service.py:99-106 and :200-206: the payment is fetched and, for a
\* refund, must be completed
PayGetPayment(p) ==
    /\ pc[p] = "get_payment"
    /\ LET current == get_payment_by_id(payments, req[p].payment_id)
       IN  IF current = {}
           THEN RaceEnd(p, "NotFound") /\ req' = req
           ELSE IF /\ req[p].op = "process_refund"
                   /\ (CHOOSE c \in current : TRUE).status # "completed"
           THEN RaceEnd(p, "InvalidArgument") /\ req' = req
           ELSE /\ pc' = [pc EXCEPT ![p] =
                             IF req[p].op = "update_payment"
                             THEN "sync_registration" ELSE "write_payment"]
                /\ req' = [req EXCEPT
                             ![p].user_id = (CHOOSE c \in current : TRUE).user_id,
                             ![p].exam_id = (CHOOSE c \in current : TRUE).exam_id]
                /\ res' = res
    /\ UNCHANGED <<catalogue, now, users, exams, registrations, payments,
                   nextRegistrationId, nextPaymentId, last>>

\* payment_service.py:109-118 and :214-222: the registration of the pair is
\* fetched and, when there is one, written with a dict
PaySyncRegistration(p) ==
    /\ pc[p] = "sync_registration"
    /\ LET registration ==
               get_user_exam_registration(registrations, req[p].user_id,
                                          req[p].exam_id)
           synced ==
               RegistrationRepository_update_registration(
                   registrations, (CHOOSE r \in registration : TRUE).id,
                   [kind |-> "dict",
                    fields |-> [f \in {"payment_status"} |->
                                   IF req[p].op = "update_payment"
                                   THEN "paid" ELSE "refunded"]])
       IN  IF MultipleResultsFound(registration)
           THEN RaceEnd(p, "Internal") /\ registrations' = registrations
           ELSE IF registration # {} /\ synced.raised
           THEN RaceEnd(p, "Internal") /\ registrations' = registrations
           ELSE /\ registrations' = IF registration = {} THEN registrations
                                    ELSE synced.registrations
                /\ IF req[p].op = "update_payment"
                   THEN pc' = [pc EXCEPT ![p] = "write_payment"] /\ res' = res
                   ELSE RaceEnd(p, "ok")
    /\ UNCHANGED <<catalogue, now, users, exams, payments,
                   nextRegistrationId, nextPaymentId, last, req>>

\* payment_service.py:120-126 and :209-212: the payment's status is written
PayWritePayment(p) ==
    /\ pc[p] = "write_payment"
    /\ IF get_payment_by_id(payments, req[p].payment_id) = {}
       THEN RaceEnd(p, "NotFound") /\ payments' = payments
       ELSE /\ payments' = PaymentRepository_update_payment(
                               payments, req[p].payment_id,
                               [status |-> IF req[p].op = "update_payment"
                                           THEN "completed" ELSE "refunded"])
            /\ IF req[p].op = "update_payment"
               THEN RaceEnd(p, "ok")
               ELSE pc' = [pc EXCEPT ![p] = "sync_registration"] /\ res' = res
    /\ UNCHANGED <<catalogue, now, users, exams, registrations,
                   nextRegistrationId, nextPaymentId, last, req>>

NextSteps ==
    \E p \in Procs :
        \/ PayStart(p)
        \/ PayGetPayment(p)
        \/ PaySyncRegistration(p)
        \/ PayWritePayment(p)

SpecSteps == InitSteps /\ [][NextSteps]_vars








\* ------------------------------------------------------------------ claims
SamePair(a, b) == a.user_id = b.user_id /\ a.exam_id = b.exam_id

\* C1: with registration calls run one at a time, the registration store
\* never holds two registrations of the same (user, exam) pair.
AtMostOneRegistrationPerPair ==
    \A r1 \in registrations, r2 \in registrations :
        SamePair(r1, r2) => r1 = r2

\* a second create for a registered pair has been turned down
SecondRegistrationRejected ==
    /\ last.op = "create_registration"
    /\ last.detail = "already registered"
    /\ \E r \in registrations : SamePair(r, last)

RegistrationChecks(user_id, exam_id) ==
    LET known == exam_id \in DOMAIN exams
    IN  << [fails |-> user_id \notin DOMAIN users, outcome |-> "NotFound",
            detail |-> "user"],
           [fails |-> ~known, outcome |-> "NotFound", detail |-> "exam"],
           [fails |-> known /\ ~(exams[exam_id].date > now),
            outcome |-> "InvalidArgument", detail |-> "past exam"],
           [fails |-> known /\ exams[exam_id].status # "active",
            outcome |-> "InvalidArgument", detail |-> "inactive exam"],
           [fails |-> known /\ ~(exams[exam_id].current_registrations
                                    < exams[exam_id].capacity),
            outcome |-> "InvalidArgument", detail |-> "fully booked"],
           [fails |-> \E r \in registrations :
                         r.user_id = user_id /\ r.exam_id = exam_id,
            outcome |-> "InvalidArgument", detail |-> "already registered"] >>

FirstFailing(checks) ==
    LET failing == {i \in 1..Len(checks) : checks[i].fails}
    IN  IF failing = {} THEN 0
        ELSE CHOOSE i \in failing : \A j \in failing : i <= j

PaymentAccepted(user_id, exam_id, amount, status) ==
    /\ user_id \in DOMAIN users
    /\ exam_id \in DOMAIN exams
    /\ \E r \in registrations : r.user_id = user_id /\ r.exam_id = exam_id
    /\ ~\E p \in payments : p.user_id = user_id /\ p.exam_id = exam_id
    /\ amount = exams[exam_id].price
    /\ status \in {"pending", "completed", "failed", "refunded"}

\* create_payment inserts only on an accepted input, and what it inserts is
\* the input
PaymentInsertedOnlyIfAccepted ==
    last'.op = "create_payment" =>
        /\ payments' # payments =>
               /\ PaymentAccepted(last'.user_id, last'.exam_id, last'.amount,
                                  last'.status)
               /\ \E p \in payments' \ payments :
                      /\ payments' = payments \cup {p}
                      /\ SamePair(p, last')
                      /\ p.amount = exams[p.exam_id].price
        /\ last'.outcome = "ok" <=> payments' # payments

WrongAmount ==
    /\ last'.op = "create_payment"
    /\ last'.exam_id \in DOMAIN exams
    /\ last'.amount # exams[last'.exam_id].price

OnePaymentPerPairFixedAmount ==
    /\ [](\A p1 \in payments, p2 \in payments : SamePair(p1, p2) => p1 = p2)
    /\ [][\A p \in payments, q \in payments' :
              p.id = q.id => q.amount = p.amount]_vars

\* an update_payment has changed the status of a stored payment
PaymentStatusUpdated ==
    /\ last.op = "update_payment"
    /\ last.outcome = "ok"
    /\ last.status = "failed"
    /\ \E p \in payments :
           p.id = last.id /\ p.status = "failed" /\ p.amount = exams[p.exam_id].price

\* C7: update_payment to "completed" on a payment whose pair is registered
\* ends with the payment completed and the registration paid.
UpdatePaymentCompletedMarksPaid ==
    [][\A p \in payments :
          (/\ last'.op = "update_payment"
           /\ last'.status = "completed"
           /\ last'.id = p.id
           /\ \E r \in registrations : SamePair(r, p)) =>
              /\ last'.outcome = "ok"
              /\ \E q \in payments' : q.id = p.id /\ q.status = "completed"
              /\ \A r \in registrations' :
                     SamePair(r, p) => r.payment_status = "paid"]_vars

ProcessRefundContract ==
    [][\A p \in payments :
          (last'.op = "process_refund" /\ last'.id = p.id) =>
              IF p.status = "completed"
              THEN /\ \E q \in payments' : q.id = p.id /\ q.status = "refunded"
                   /\ \A r \in registrations' :
                          SamePair(r, p) => r.payment_status = "refunded"
              ELSE /\ last'.outcome = "InvalidArgument"
                   /\ payments' = payments
                   /\ registrations' = registrations]_vars

\* C10: delete_payment fails with NotFound on an absent id, fails with
\* InvalidArgument on a completed payment, both leaving the store as it
\* was, and otherwise removes exactly the payment of that id.
DeletePaymentContract ==
    [][last'.op = "delete_payment" =>
          LET found == {p \in payments : p.id = last'.id}
          IN  IF found = {}
              THEN last'.outcome = "NotFound" /\ payments' = payments
              ELSE IF \E p \in found : p.status = "completed"
              THEN last'.outcome = "InvalidArgument" /\ payments' = payments
              ELSE last'.outcome = "ok" /\ payments' = payments \ found]_vars

\* the delete of a completed payment was turned down and the payment is
\* still stored
CompletedPaymentKept ==
    /\ last.op = "delete_payment"
    /\ last.outcome = "InvalidArgument"
    /\ \E p \in payments : p.id = last.id /\ p.status = "completed"

\* what create_result requires of its input, on the stores before the call
ResultAccepted(user_id, exam_id, score) ==
    /\ user_id \in DOMAIN users
    /\ exam_id \in DOMAIN exams
    /\ \E r \in registrations :
           r.user_id = user_id /\ r.exam_id = exam_id /\ r.status = "confirmed"
    /\ ~\E r \in results : r.user_id = user_id /\ r.exam_id = exam_id
    /\ \A v \in score : v \in 0..100

\* C11: create_result inserts a result of the pair only if the user and the
\* exam exist, the pair has a confirmed registration and no result yet, and
\* the score, if given, is in 0..100; for an existing user and exam, a
\* registration in status pending or cancelled yields InvalidArgument and
\* stores nothing; with calls run one at a time there is never more than
\* one result per (user, exam).
CreateResultContract ==
    /\ [](\A r1 \in results, r2 \in results : SamePair(r1, r2) => r1 = r2)
    /\ [][last'.op = "create_result" =>
             /\ last'.outcome = "ok" <=> results' # results
             /\ results' # results =>
                    /\ ResultAccepted(last'.user_id, last'.exam_id,
                                      last'.score)
                    /\ \E r \in results' \ results :
                           /\ results' = results \cup {r}
                           /\ SamePair(r, last')
                           /\ r.score = last'.score
             /\ (/\ last'.user_id \in DOMAIN users
                 /\ last'.exam_id \in DOMAIN exams
                 /\ \E r \in registrations :
                        /\ SamePair(r, last')
                        /\ r.status \in {"pending", "cancelled"}) =>
                    /\ last'.outcome = "InvalidArgument"
                    /\ results' = results]_vars

\* a result for a cancelled registration was turned down
UnconfirmedRegistrationRejected ==
    /\ last.op = "create_result"
    /\ last.detail = "not confirmed"
    /\ last.outcome = "InvalidArgument"
    /\ \E r \in registrations : SamePair(r, last) /\ r.status = "cancelled"
    /\ \E r \in results : ~SamePair(r, last)

SameFigures(a, b) ==
    /\ a.total_registrations = b.total_registrations
    /\ a.total_paid = b.total_paid
    /\ a.total_unpaid = b.total_unpaid
    /\ a.average_score = b.average_score

\* C12: a generate_exam_analytics that directly follows a successful one
\* for the same exam succeeds too and leaves the exam's stored figures as
\* the first call left them.
GenerateTwiceSameFigures ==
    [][(/\ last.op = "generate_exam_analytics"
        /\ last.outcome = "ok"
        /\ last'.op = "generate_exam_analytics"
        /\ last'.exam_id = last.exam_id) =>
           /\ last'.outcome = "ok"
           /\ \A a \in analytics, b \in analytics' :
                  (a.exam_id = last.exam_id /\ b.exam_id = last.exam_id) =>
                      SameFigures(a, b)]_vars

GenerateStoresReference ==
    [][(/\ last'.op = "generate_exam_analytics"
        /\ last'.outcome = "ok") =>
           LET e == last'.exam_id
               of_exam == {r \in registrations : r.exam_id = e}
               paid == {r \in of_exam : r.payment_status = "paid"}
               scored == {r \in results : r.exam_id = e /\ r.score # {}}
           IN  \E a \in analytics' \ analytics :
                   /\ analytics' = analytics \cup {a}
                   /\ a.exam_id = e
                   /\ a.total_registrations = Cardinality(of_exam)
                   /\ a.total_paid = Cardinality(paid)
                   /\ a.total_unpaid = Cardinality(of_exam) - Cardinality(paid)
                   /\ IF scored = {} THEN a.average_score = {}
                      ELSE \E q \in a.average_score :
                               /\ q[2] > 0
                               /\ q[1] * Cardinality(scored)
                                      = q[2] * SumScores(scored)]_vars

\* analytics were generated for exam 1, which has two registrations, one of
\* them paid, and one result, while exam 2 has a registration and a result
\* of its own
GeneratedBesideOtherExam ==
    /\ last.op = "generate_exam_analytics"
    /\ last.outcome = "ok"
    /\ last.exam_id = 1
    /\ \E r \in results : r.exam_id = 1 /\ r.score = {100}
    /\ \E r \in results : r.exam_id = 2 /\ r.score = {0}
    /\ \E r \in registrations : r.exam_id = 2
    /\ \E a \in analytics :
           /\ a.exam_id = 1
           /\ a.total_registrations = 2
           /\ a.total_paid = 1
           /\ a.total_unpaid = 1
           /\ a.average_score = {<<100, 1>>}

\* C15: with analytic calls run one at a time there is at most one Analytic
\* per exam; create_analytic on an exam that has one fails with
\* InvalidArgument; generate_exam_analytics on an exam that has one
\* succeeds and writes the fresh figures into that record without adding a
\* second one.
OneAnalyticPerExam ==
    /\ [](\A a \in analytics, b \in analytics : a.exam_id = b.exam_id => a = b)
    /\ [][(/\ last'.op = "create_analytic"
           /\ \E a \in analytics : a.exam_id = last'.exam_id) =>
              /\ last'.outcome = "InvalidArgument"
              /\ analytics' = analytics]_vars
    /\ [][(/\ last'.op = "generate_exam_analytics"
           /\ \E a \in analytics : a.exam_id = last'.exam_id) =>
              /\ last'.outcome = "ok"
              /\ Cardinality(analytics') = Cardinality(analytics)
              /\ \A b \in analytics' :
                     b.exam_id = last'.exam_id =>
                         SameFigures(b, exam_analytic_data(
                                            registrations, results,
                                            last'.exam_id))]_vars

\* C16: every stored Analytic has total_paid + total_unpaid equal to
\* total_registrations.
AnalyticTotalsAddUp ==
    \A a \in analytics : a.total_paid + a.total_unpaid = a.total_registrations

\* the four checks of create_exam in their declared order
ExamChecks(date, location_id, capacity, price) ==
    LET known == location_id \in DOMAIN locations
    IN  << [fails |-> ~(date > now), outcome |-> "InvalidArgument",
            detail |-> "date"],
           [fails |-> ~known, outcome |-> "NotFound", detail |-> "location"],
           [fails |-> known /\ ~(capacity <= locations[location_id].capacity),
            outcome |-> "InvalidArgument", detail |-> "capacity"],
           [fails |-> ~(price > 0), outcome |-> "InvalidArgument",
            detail |-> "price"] >>

UniqueUsersContract ==
    /\ [](\A u1 \in DOMAIN users, u2 \in DOMAIN users :
              u1 # u2 => /\ users[u1].username # users[u2].username
                         /\ users[u1].email # users[u2].email)
    /\ [][(last'.op = "update_user" /\ last'.id \in DOMAIN users) =>
             LET others == DOMAIN users \ {last'.id}
                 taken ==
                     \/ /\ last'.username # "unset"
                        /\ \E o \in others :
                               users[o].username = last'.username
                     \/ /\ last'.email # "unset"
                        /\ \E o \in others : users[o].email = last'.email
             IN  IF taken
                 THEN last'.outcome # "ok" /\ users' = users
                 ELSE last'.outcome = "ok"]_vars

\* an update that asked for the username of another user was turned down
TakenUsernameRejected ==
    /\ last.op = "update_user"
    /\ last.outcome = "InvalidArgument"
    /\ last.detail = "username"
    /\ last.id \in DOMAIN users
    /\ users[last.id].username # last.username
    /\ \E o \in DOMAIN users : o # last.id /\ users[o].username = last.username

\* C20: every call of a domain service ends with a success value, NotFound
\* or InvalidArgument, also after a user or an exam has been deleted under
\* its registrations, payments and analytics.
TypedOutcomesOnly ==
    last.outcome \in {"ok", "NotFound", "InvalidArgument"}

\* C21: a create, update or delete call of any service that ends with
\* NotFound or InvalidArgument leaves every store as it was before the call.
FailedCallChangesNothing ==
    [][last'.outcome \in {"NotFound", "InvalidArgument"} => stores' = stores]_vars

\* an update of a stored result was refused for its score or grade
StoredResultUpdateRefused ==
    /\ last.op = "update_result"
    /\ last.outcome = "InvalidArgument"
    /\ \E r \in results : r.id = last.id

\* C22: check_registration_availability never raises: every call, also one
\* for an exam or a user that does not exist, ends with an answer.
CheckAvailabilityNeverRaises ==
    last.op = "check_registration_availability" => last.outcome = "ok"

PastExamRegistrationFrozen ==
    [][\A r \in registrations :
           (/\ last'.op \in {"update_registration", "delete_registration"}
            /\ last'.id = r.id
            /\ last'.op = "update_registration" => last'.status # "unset"
            /\ r.exam_id \in DOMAIN exams)
           => IF exams[r.exam_id].date <= now
              THEN last'.outcome = "InvalidArgument" /\ r \in registrations'
              ELSE last'.outcome = "ok"]_vars

\* the place of a grade on the scale, F lowest
GradeRank(grade) ==
    CASE grade = "F" -> 0
      [] grade = "D" -> 1
      [] grade = "C" -> 2
      [] grade = "B" -> 3
      [] grade = "A" -> 4

\* the grade of the band a score lies in
GradeOfBand(score) ==
    IF score \in 90..MaxScore THEN "A"
    ELSE IF score \in 80..89 THEN "B"
    ELSE IF score \in 70..79 THEN "C"
    ELSE IF score \in 60..69 THEN "D"
    ELSE "F"

\* C25: for every integer score in 0..100 calculate_grade returns A for
\* score >= 90, B for 80..89, C for 70..79, D for 60..69 and F below 60; it
\* answers every score, and a higher score never gets a lower grade.
CalculateGradeBands ==
    /\ last.op = "calculate_grade"
       => /\ last.grade \in Grades
          /\ last.grade = GradeOfBand(last.score)
          /\ \A lower \in 0..last.score :
                 GradeRank(calculate_grade_result(lower))
                     <= GradeRank(last.grade)

\* a score on the edge of a band was graded
LowestAGraded ==
    /\ last.op = "calculate_grade"
    /\ last.score = 90
    /\ last.grade = "A"

\* C26: once a payment has status completed, no sequence of update_payment
\* and delete_payment calls removes it from the store.  Under SpecKeep every
\* registration starts with a completed payment of the same id, and the
\* registrations stay as they are, so each of them still has to find its
\* payment.
OnceCompletedAlwaysStored ==
    \A r \in registrations : \E p \in payments : p.id = r.id

PaidOnlyWithCompletedPayment ==
    \A r \in registrations :
        r.payment_status = "paid"
        => \E p \in payments : SamePair(p, r) /\ p.status = "completed"

\* C30: update_payment(status = completed) is two write steps: for a payment
\* whose pair has a registration it first writes payment_status paid to the
\* registration and goes on to write the payment's status, so that between
\* the two the registration says paid while the payment is not completed.
UpdatePaymentMarksPaidBeforePaymentWrite ==
    [][\A p \in Procs :
           (/\ pc[p] = "sync_registration"
            /\ pc'[p] # pc[p]
            /\ req[p].op = "update_payment"
            /\ \E r \in registrations : SamePair(r, req[p]))
           => /\ pc'[p] = "write_payment"
              /\ \A r \in registrations' :
                     SamePair(r, req[p]) => r.payment_status = "paid"]_vars

====
